--------------------------- MODULE LateWorkProofs ---------------------------
(* Proofs about the work that comes late or twice.                             *)
(*   Idempotency, for any number of retries: a key is executed at most once    *)
(* more than the interceptor lost its grip, and while it did not, every retry  *)
(* is given the same answer (RetryInv).                                        *)
(*   Migrations, for any number of replicas and any images: nothing manual is  *)
(* applied twice, nothing generated while the lock lasts, and a runner that    *)
(* reports the database up to date is right (BootInv).                         *)
(*   ReportExports, for any exports, workers and faults: who is in charge of an*)
(* export, and that its outcome stays (ExportInv).                             *)
EXTENDS LateWork, Sequences, FiniteSetTheorems, WellFoundedInduction, TLAPS

(* The inductive invariant. *)
RetryInv == TypeOK /\ Budget /\ AnswersAreWritten

(* The sets that are counted are finite. *)
LEMMA Counted ==
    ASSUME TypeOK
    PROVE  /\ IsFiniteSet(wrote) /\ Cardinality(wrote) \in Nat
           /\ IsFiniteSet(MayExecute) /\ Cardinality(MayExecute) \in Nat
<1>1. wrote \in SUBSET Retries /\ MayExecute \in SUBSET Retries
  BY DEF TypeOK, MayExecute
<1>2. IsFiniteSet(wrote) /\ IsFiniteSet(MayExecute)
  BY <1>1, FS_Subset, RetriesAssumption
<1> QED
  BY <1>2, FS_CardinalityType

(* A request that moves enters or leaves the sets of those that may still      *)
(* execute, and of those in hand, alone.                                     *)
LEMMA Moved ==
    ASSUME TypeOK, NEW r \in Retries, NEW from, NEW to, Goes(r, from, to)
    PROVE  /\ Cardinality(MayExecute') =
                 Cardinality(MayExecute)
                 + (IF to \in {"run", "release"} THEN 1 ELSE 0)
                 - (IF from \in {"run", "release"} THEN 1 ELSE 0)
           /\ to \in {"run", "store", "release"} => r \in InHand'
           /\ InHand = {} => from \notin {"run", "store", "release"}
           /\ from \notin {"run", "store", "release"} => InHand \subseteq InHand'
<1> DEFINE Counts == {"run", "release"}
<1>1. /\ req[r] = from
      /\ req' = [req EXCEPT ![r] = to]
      /\ req \in [Retries -> {"new", "claim", "run", "store", "release", "over"}]
  BY DEF Goes, TypeOK
<1>2. /\ to \in {"run", "store", "release"} => r \in InHand'
      /\ InHand = {} => from \notin {"run", "store", "release"}
      /\ from \notin {"run", "store", "release"} => InHand \subseteq InHand'
  BY <1>1 DEF InHand
<1>3. r \in MayExecute <=> from \in Counts
  BY <1>1 DEF MayExecute
<1>4. IsFiniteSet(MayExecute) /\ Cardinality(MayExecute) \in Nat
  BY Counted
<1>5. CASE to \in Counts
  <2>1. MayExecute' = MayExecute \cup {r}
    BY <1>1, <1>5 DEF MayExecute
  <2>2. Cardinality(MayExecute \cup {r}) =
           IF r \in MayExecute THEN Cardinality(MayExecute) ELSE Cardinality(MayExecute) + 1
    BY <1>4, FS_AddElement
  <2> QED
    BY <2>1, <2>2, <1>2, <1>3, <1>4, <1>5
<1>6. CASE to \notin Counts
  <2>1. MayExecute' = MayExecute \ {r}
    BY <1>1, <1>6 DEF MayExecute
  <2>2. Cardinality(MayExecute \ {r}) =
           IF r \in MayExecute THEN Cardinality(MayExecute) - 1 ELSE Cardinality(MayExecute)
    BY <1>4, FS_RemoveElement
  <2> QED
    BY <2>1, <2>2, <1>2, <1>3, <1>4, <1>6
<1> QED
  BY <1>5, <1>6

(* A request that may still execute is counted. *)
LEMMA Holds ==
    ASSUME TypeOK, NEW r \in MayExecute
    PROVE  Cardinality(MayExecute) >= 1
<1>1. IsFiniteSet(MayExecute) /\ Cardinality(MayExecute) \in Nat
  BY Counted
<1>2. Cardinality(MayExecute) # 0
  BY <1>1, FS_EmptySet
<1> QED
  BY <1>1, <1>2

(* The writes of one handler count once. *)
LEMMA Written ==
    ASSUME TypeOK, NEW r \in Retries
    PROVE  Cardinality(wrote \cup {r}) \in Cardinality(wrote) .. Cardinality(wrote) + 1
<1>1. IsFiniteSet(wrote) /\ Cardinality(wrote) \in Nat
  BY Counted
<1>2. Cardinality(wrote \cup {r}) =
         IF r \in wrote THEN Cardinality(wrote) ELSE Cardinality(wrote) + 1
  BY <1>1, FS_AddElement
<1> QED
  BY <1>1, <1>2

(* It holds before the first request. *)
LEMMA RetryInit == Init => RetryInv
<1> SUFFICES ASSUME Init PROVE RetryInv
  OBVIOUS
<1> USE DEF Init
<1>1. TypeOK
  BY DEF TypeOK
<1>2. MayExecute = {} /\ wrote = {}
  BY DEF MayExecute
<1>3. Budget
  BY <1>2, FS_EmptySet DEF Budget, None, Processing
<1>4. AnswersAreWritten
  BY DEF AnswersAreWritten, None
<1> QED
  BY <1>1, <1>3, <1>4 DEF RetryInv

(* Every step keeps the types. *)
LEMMA TypeStep == TypeOK /\ [Next]_vars => TypeOK'
<1> SUFFICES ASSUME TypeOK, [Next]_vars PROVE TypeOK'
  OBVIOUS
<1> USE DEF TypeOK, Goes, Lapses
<1>0. entry.by \in Retries \cup {Nobody}
  BY DEF None, Processing, Done
<1>1. ASSUME NEW r \in Retries, Look(r) PROVE TypeOK'
  BY <1>0, <1>1 DEF Look
<1>2. ASSUME NEW r \in Retries, Claim(r) PROVE TypeOK'
  BY <1>2 DEF Claim
<1>3. ASSUME NEW r \in Retries, Handle(r) PROVE TypeOK'
  BY <1>3 DEF Handle
<1>4. ASSUME NEW r \in Retries, HandlerThrows(r) PROVE TypeOK'
  BY <1>4 DEF HandlerThrows
<1>5. ASSUME NEW r \in Retries, Store(r) PROVE TypeOK'
  BY <1>5 DEF Store, Stored
<1>6. ASSUME NEW r \in Retries, StoreFails(r) PROVE TypeOK'
  BY <1>6 DEF StoreFails, Stored
<1>7. ASSUME NEW r \in Retries, Release(r) PROVE TypeOK'
  BY <1>7 DEF Release
<1>8. ASSUME NEW r \in Retries, Dies(r) PROVE TypeOK'
  BY <1>8 DEF Dies
<1>9. CASE Expire
  BY <1>9 DEF Expire
<1>10. CASE UNCHANGED vars
  BY <1>10 DEF vars
<1> QED
  BY <1>1, <1>2, <1>3, <1>4, <1>5, <1>6, <1>7, <1>8, <1>9, <1>10 DEF Next

(* Every step keeps the budget. *)
LEMMA BudgetStep == TypeOK /\ Budget /\ [Next]_vars => Budget'
<1> SUFFICES ASSUME TypeOK, Budget, [Next]_vars PROVE Budget'
  OBVIOUS
<1> DEFINE W == Cardinality(wrote)
           May == Cardinality(MayExecute)
<1>a. W \in Nat /\ May \in Nat /\ lapses \in Nat
  BY Counted DEF TypeOK
<1>b. None # Processing /\ \A r \in Retries : Done(r) # None /\ Done(r) # Processing
  BY DEF None, Processing, Done
<1>c. /\ W + May <= lapses + (IF entry = None THEN 0 ELSE 1)
      /\ entry = Processing /\ InHand = {} => W <= lapses
  BY DEF Budget
<1>1. ASSUME NEW r \in Retries, Look(r) PROVE Budget'
  <2>1. PICK to \in {"claim", "over"} : Goes(r, "new", to)
    BY <1>1 DEF Look
  <2>2. Cardinality(MayExecute') = May /\ InHand \subseteq InHand'
    BY <2>1, <1>a, Moved
  <2> QED
    BY <1>1, <1>c, <2>2 DEF Look, Budget
<1>2. ASSUME NEW r \in Retries, Claim(r) PROVE Budget'
  <2>1. CASE Claimable
    <3>1. Goes(r, "claim", "run") /\ entry' = Processing
      BY <1>2, <2>1 DEF Claim
    <3>2. Cardinality(MayExecute') = May + 1 /\ r \in InHand'
      BY <3>1, <1>a, Moved
    <3> QED
      BY <1>2, <1>a, <1>b, <1>c, <2>1, <3>1, <3>2 DEF Claim, Claimable, Budget
  <2>2. CASE ~Claimable
    <3>1. Goes(r, "claim", "over") /\ entry' = entry
      BY <1>2, <2>2 DEF Claim
    <3>2. Cardinality(MayExecute') = May /\ InHand \subseteq InHand'
      BY <3>1, <1>a, Moved
    <3> QED
      BY <1>2, <1>c, <3>1, <3>2 DEF Claim, Budget
  <2> QED
    BY <2>1, <2>2
<1>3. ASSUME NEW r \in Retries, Handle(r) PROVE Budget'
  <2>1. /\ Goes(r, "run", "store")
        /\ wrote' = wrote \cup {r} /\ entry' = entry /\ lapses' = lapses
    BY <1>3 DEF Handle
  <2>2. Cardinality(MayExecute') = May - 1 /\ r \in InHand'
    BY <2>1, <1>a, Moved
  <2>3. Cardinality(wrote') \in W .. W + 1
    BY <2>1, Written
  <2> QED
    BY <1>a, <1>c, <2>1, <2>2, <2>3 DEF Budget
<1>4. ASSUME NEW r \in Retries, HandlerThrows(r) PROVE Budget'
  <2>1. Goes(r, "run", "release") /\ entry' = entry
    BY <1>4 DEF HandlerThrows
  <2>2. Cardinality(MayExecute') = May /\ r \in InHand'
    BY <2>1, <1>a, Moved
  <2>3. \/ Cardinality(wrote') = W /\ lapses' = lapses
        \/ Cardinality(wrote') \in W .. W + 1 /\ lapses' = lapses + 1
    BY <1>4, Written DEF HandlerThrows, Lapses
  <2> QED
    BY <1>a, <1>c, <2>1, <2>2, <2>3 DEF Budget
<1>5. ASSUME NEW r \in Retries, Store(r) PROVE Budget'
  <2>1. Goes(r, "store", "over") /\ entry' = Done(r) /\ wrote' = wrote /\ lapses' = lapses
    BY <1>5 DEF Store, Stored
  <2>2. Cardinality(MayExecute') = May
    BY <2>1, <1>a, Moved
  <2> QED
    BY <1>a, <1>b, <1>c, <2>1, <2>2 DEF Budget, None, Processing
<1>6. ASSUME NEW r \in Retries, StoreFails(r) PROVE Budget'
  <2>1. /\ Goes(r, "store", "release")
        /\ wrote' = wrote /\ lapses' = lapses + 1
        /\ entry' = entry \/ entry' = Done(r)
    BY <1>6 DEF StoreFails, Stored, Lapses
  <2>2. Cardinality(MayExecute') = May + 1 /\ r \in InHand'
    BY <2>1, <1>a, Moved
  <2> QED
    BY <1>a, <1>b, <1>c, <2>1, <2>2 DEF Budget
<1>7. ASSUME NEW r \in Retries, Release(r) PROVE Budget'
  <2>1. /\ Goes(r, "release", "over")
        /\ wrote' = wrote /\ lapses' = lapses
        /\ entry' = entry \/ entry' = None
    BY <1>7 DEF Release
  <2>2. Cardinality(MayExecute') = May - 1
    BY <2>1, <1>a, Moved
  <2>3. May >= 1
    BY <2>1, Holds DEF Goes, MayExecute
  <2> QED
    BY <1>a, <1>b, <1>c, <2>1, <2>2, <2>3 DEF Budget
<1>8. ASSUME NEW r \in Retries, Dies(r) PROVE Budget'
  <2>1. /\ Goes(r, req[r], "over") /\ req[r] \in {"claim", "run", "store", "release"}
        /\ wrote' = wrote /\ entry' = entry
        /\ lapses' = lapses + (IF req[r] = "store" THEN 1 ELSE 0)
    BY <1>8 DEF Dies, Goes, Lapses
  <2>2. Cardinality(MayExecute') = May - (IF req[r] \in {"run", "release"} THEN 1 ELSE 0)
    BY <2>1, <1>a, Moved
  <2>3. req[r] = "claim" => InHand \subseteq InHand'
    BY <2>1, Moved
  <2>4. req[r] \in {"run", "release"} => May >= 1
    BY Holds DEF MayExecute
  <2> QED
    BY <1>a, <1>c, <2>1, <2>2, <2>3, <2>4 DEF Budget
<1>9. CASE Expire
  <2>1. /\ entry # None /\ entry' = None /\ wrote' = wrote /\ req' = req
        /\ lapses' = lapses + (IF entry = Processing /\ InHand = {} THEN 0 ELSE 1)
    BY <1>9 DEF Expire, Lapses
  <2>2. MayExecute' = MayExecute
    BY <2>1 DEF MayExecute
  <2>3. InHand = {} => May = 0
    <3>1. MayExecute \subseteq InHand
      BY DEF MayExecute, InHand
    <3> QED
      BY <3>1, FS_EmptySet
  <2> QED
    BY <1>a, <1>b, <1>c, <2>1, <2>2, <2>3 DEF Budget
<1>10. CASE UNCHANGED vars
  BY <1>10 DEF vars, Budget, MayExecute, InHand
<1> QED
  BY <1>1, <1>2, <1>3, <1>4, <1>5, <1>6, <1>7, <1>8, <1>9, <1>10 DEF Next

(* Every step keeps what is stored written. *)
LEMMA WrittenStep ==
    TypeOK /\ AnswersAreWritten /\ [Next]_vars => AnswersAreWritten'
<1> SUFFICES ASSUME TypeOK, AnswersAreWritten, [Next]_vars PROVE AnswersAreWritten'
  OBVIOUS
<1> USE DEF TypeOK, AnswersAreWritten, Goes
<1>1. ASSUME NEW r \in Retries, Look(r) PROVE AnswersAreWritten'
  BY <1>1 DEF Look
<1>2. ASSUME NEW r \in Retries, Claim(r) PROVE AnswersAreWritten'
  BY <1>2 DEF Claim, Processing
<1>3. ASSUME NEW r \in Retries, Handle(r) PROVE AnswersAreWritten'
  BY <1>3 DEF Handle
<1>4. ASSUME NEW r \in Retries, HandlerThrows(r) PROVE AnswersAreWritten'
  BY <1>4 DEF HandlerThrows
<1>5. ASSUME NEW r \in Retries, Store(r) PROVE AnswersAreWritten'
  BY <1>5 DEF Store, Stored, Done
<1>6. ASSUME NEW r \in Retries, StoreFails(r) PROVE AnswersAreWritten'
  BY <1>6 DEF StoreFails, Stored, Done
<1>7. ASSUME NEW r \in Retries, Release(r) PROVE AnswersAreWritten'
  BY <1>7 DEF Release, None
<1>8. ASSUME NEW r \in Retries, Dies(r) PROVE AnswersAreWritten'
  BY <1>8 DEF Dies
<1>9. CASE Expire
  BY <1>9 DEF Expire, None
<1>10. CASE UNCHANGED vars
  BY <1>10 DEF vars
<1> QED
  BY <1>1, <1>2, <1>3, <1>4, <1>5, <1>6, <1>7, <1>8, <1>9, <1>10 DEF Next

(* The inductive invariant always holds: every execution beyond the first is   *)
(* paid for by a lapse, those still to come included.                        *)
THEOREM RetryInvAlways == Spec => []RetryInv
<1>1. RetryInv /\ [Next]_vars => RetryInv'
  BY TypeStep, BudgetStep, WrittenStep DEF RetryInv
<1> QED
  BY <1>1, RetryInit, PTL DEF Spec

(* A key is executed at most once more than the interceptor lost its grip.    *)
THEOREM ExecutedOncePerLapse == Spec => []OncePerLapse
<1>1. RetryInv => OncePerLapse
  <2> SUFFICES ASSUME RetryInv PROVE OncePerLapse
    OBVIOUS
  <2>1. Cardinality(wrote) \in Nat /\ Cardinality(MayExecute) \in Nat /\ lapses \in Nat
    BY Counted DEF RetryInv, TypeOK
  <2> QED
    BY <2>1 DEF RetryInv, Budget, OncePerLapse
<1> QED
  BY <1>1, RetryInvAlways, PTL

(* While it did not, every retry that is answered gets the same answer.       *)
THEOREM AnsweredAlike == Spec => []SameAnswer
<1>1. RetryInv => SameAnswer
  <2> SUFFICES ASSUME RetryInv PROVE SameAnswer
    OBVIOUS
  <2>1. \A r \in Retries : answer[r] # Nobody => answer[r] \in wrote
    BY DEF RetryInv, AnswersAreWritten
  <2>2. ASSUME lapses = 0, NEW q \in wrote, NEW r \in wrote PROVE q = r
    <3>1. /\ IsFiniteSet(wrote)
          /\ Cardinality(wrote) \in Nat /\ Cardinality(MayExecute) \in Nat
      BY Counted DEF RetryInv
    <3>2. Cardinality(wrote) \in 0 .. 1
      BY <3>1, <2>2 DEF RetryInv, Budget
    <3>3. Cardinality(wrote) = 0 => wrote = {}
      BY <3>1, FS_EmptySet
    <3>4. Cardinality(wrote) = 1 => \E x : wrote = {x}
      BY <3>1, FS_Singleton
    <3> QED
      BY <3>2, <3>3, <3>4
  <2> QED
    BY <2>1, <2>2 DEF SameAnswer
<1> QED
  BY <1>1, RetryInvAlways, PTL

-----------------------------------------------------------------------------
(* Migrations, for any number of replicas and any images.                    *)

(* What a name may have in __manual_migrations.                              *)
Checksums == {M!None, M!Untracked} \cup M!Texts \cup {M!Canonical(text) : text \in M!Texts}

BootTypes ==
    /\ M!TypeOK
    /\ saw \in [Runners -> 0..MaxGen] /\ next \in [Runners -> Nat]
    /\ ranGen \in [1..MaxGen -> Nat]
    /\ stored \in [M!Names -> Checksums] /\ DOMAIN ran = M!Names

(* A row says what was run, and there is one for whatever was.                *)
RowsAreRuns ==
    \A f \in M!Names :
        /\ stored[f] = M!None => ran[f] = <<>> /\ f \notin unchecked
        /\ stored[f] = M!Untracked => f \in unchecked
        /\ stored[f] # M!None /\ f \notin unchecked => ran[f] = <<stored[f].sql>>
        /\ f \in unchecked => ran[f] = <<>>

(* The files a runner is past were run as its image has them.                 *)
RanAsImaged(r, f) == f \in unchecked \/ ran[f] = <<image[r].files[f].sql>>
PastAreRun ==
    \A r \in Runners :
        /\ at[r] = "apply" => next[r] \in DOMAIN image[r].files
        /\ \A f \in DOMAIN image[r].files : f < next[r] \/ at[r] = "done" => RanAsImaged(r, f)

(* The journal claims only what was run, and all that a runner past Drizzle has. *)
JournalIsRun ==
    /\ \A g \in 1..journal : ranGen[g] >= 1
    /\ \A r \in Runners :
          /\ saw[r] <= journal
          /\ at[r] \in {"look", "apply", "done"} => image[r].gen <= journal

(* While the lock lasts one runner is at work, and what it read of the journal   *)
(* still holds.                                                              *)
LockKeepsApart ==
    ~lapsed =>
        /\ \A g \in 1..MaxGen : ranGen[g] <= IF g <= journal THEN 1 ELSE 0
        /\ \A r \in Runners :
              /\ at[r] \in M!Active \ {"lock"} => lock = r
              /\ at[r] = "migrate" => saw[r] = journal

(* The inductive invariant. *)
BootInv == BootTypes /\ RowsAreRuns /\ PastAreRun /\ JournalIsRun /\ LockKeepsApart

(* The rows that hold no checksum are no checksum of a text.                  *)
LEMMA ChecksumsDiffer ==
    ASSUME NEW text \in M!Texts
    PROVE  /\ text \notin {M!None, M!Untracked}
           /\ M!Canonical(text) \in Checksums \ {M!None, M!Untracked}
           /\ M!Canonical(text).sql = text.sql
           /\ \A c \in M!Accepted(text) : c.sql = text.sql
<1>1. text = [sql |-> text.sql, eol |-> text.eol] /\ text.eol \in {"lf", "crlf"}
  BY MigrationsAssumption
<1> DEFINE sql == text.sql
           eol == text.eol
<1>2. text = [sql |-> sql, eol |-> eol] /\ eol \in {"lf", "crlf"}
  BY <1>1
<1> HIDE DEF sql, eol
<1>3. M!Canonical(text) = [sql |-> sql, eol |-> "lf"]
  BY <1>2 DEF M!Canonical
<1>4. M!Accepted(text) = {[sql |-> sql, eol |-> "lf"], text, [sql |-> sql, eol |-> "crlf"]}
  BY <1>2, <1>3 DEF M!Accepted
<1>5. M!None.eol = "-" /\ M!Untracked.eol = "-"
  BY DEF M!None, M!Untracked
<1>6. text \notin {M!None, M!Untracked} /\ M!Canonical(text) \notin {M!None, M!Untracked}
  BY <1>2, <1>3, <1>5
<1>7. text.sql = sql /\ M!Canonical(text).sql = sql
  BY <1>2, <1>3
<1>8. \A c \in M!Accepted(text) : c.sql = sql
  BY <1>4, <1>7
<1> QED
  BY <1>6, <1>7, <1>8 DEF Checksums

(* The text of a file an image has.                                          *)
LEMMA FileOfImage ==
    ASSUME NEW i \in Images, NEW f \in DOMAIN i.files
    PROVE  f \in M!Names /\ f \in Nat \ {0} /\ i.files[f] \in M!Texts
BY MigrationsAssumption DEF M!Names, M!Texts

(* Numbers have a least.                                                     *)
LEMMA HasLeast ==
    ASSUME NEW S \in SUBSET Nat, S # {}
    PROVE  \E m \in S : \A n \in S : m <= n
<1> DEFINE R == OpToRel(<, Nat)
<1>1. IsWellFoundedOn(R, Nat)
  BY NatLessThanWellFounded
<1>2. \A x, y \in Nat : y < x => <<y, x>> \in R
  BY DEF OpToRel
<1> HIDE DEF R
<1>3. PICK m \in S : \A n \in S : ~(<<n, m>> \in R)
  BY <1>1, WFMin
<1>4. \A n \in S : ~(n < m)
  BY <1>2, <1>3
<1> QED
  BY <1>4

(* The first of the files that are left comes before every other of them.     *)
LEMMA FirstLeft ==
    ASSUME BootTypes, NEW r \in Runners, M!Left(r) # {}
    PROVE  /\ M!First(M!Left(r)) \in DOMAIN image[r].files
           /\ \A g \in DOMAIN image[r].files : g < M!First(M!Left(r)) => g < next[r]
<1> DEFINE L == M!Left(r)
<1>1. L \subseteq Nat /\ L \subseteq DOMAIN image[r].files
  BY FileOfImage DEF M!Left, BootTypes, M!TypeOK
<1>2. PICK m \in L : \A g \in L : m <= g
  BY <1>1, HasLeast
<1>3. M!First(L) \in L /\ \A g \in L : M!First(L) <= g
  BY <1>2 DEF M!First
<1>4. next[r] \in Nat
  BY DEF BootTypes
<1>5. L = {f \in DOMAIN image[r].files : f >= next[r]}
  BY DEF M!Left
<1>6. DOMAIN image[r].files \subseteq Nat
  BY FileOfImage DEF BootTypes, M!TypeOK
<1> HIDE DEF L
<1> DEFINE first == M!First(L)
<1>7. first \in L /\ \A g \in L : first <= g
  BY <1>3
<1> HIDE DEF first
<1>8. /\ first \in DOMAIN image[r].files
      /\ \A g \in DOMAIN image[r].files : g < first => g < next[r]
  BY <1>4, <1>5, <1>6, <1>7
<1> QED
  BY <1>8 DEF first, L


LEMMA BootInit == M!Init => BootInv
<1> SUFFICES ASSUME M!Init PROVE BootInv
  OBVIOUS
<1> USE DEF M!Init
<1>1. journal \in {0, 1} /\ journal <= MaxGen
  BY MigrationsAssumption
<1>2. \A f \in M!Names :
         /\ stored[f] \in {M!None, M!Untracked} \cup M!Texts
         /\ ran[f] = IF stored[f] \in {M!None, M!Untracked} THEN <<>> ELSE <<stored[f].sql>>
         /\ f \in unchecked <=> stored[f] = M!Untracked
  OBVIOUS
<1>3. M!TypeOK
  <2>1. journal \in 0..MaxGen /\ lock \in Runners \cup {Nobody}
    BY <1>1, MigrationsAssumption
  <2>2. at \in [Runners -> M!Active \cup {"done", "failed"}]
    BY DEF M!Active
  <2> QED
    BY <2>1, <2>2 DEF M!TypeOK
<1>4. stored \in [M!Names -> Checksums]
  <2>1. DOMAIN stored = M!Names /\ stored = [f \in M!Names |-> stored[f]]
    OBVIOUS
  <2> QED
    BY <1>2, <2>1 DEF Checksums
<1>5. ranGen \in [1..MaxGen -> Nat] /\ DOMAIN ran = M!Names
  OBVIOUS
<1>6. BootTypes
  BY <1>3, <1>4, <1>5, MigrationsAssumption DEF BootTypes
<1>7. RowsAreRuns
  <2>1. M!None # M!Untracked
    BY DEF M!None, M!Untracked
  <2> QED
    BY <1>2, <2>1 DEF RowsAreRuns
<1>8. PastAreRun
  BY FileOfImage DEF PastAreRun
<1>9. JournalIsRun /\ LockKeepsApart
  BY <1>1 DEF JournalIsRun, LockKeepsApart, M!Active
<1> QED
  BY <1>6, <1>7, <1>8, <1>9 DEF BootInv

(* A step of one runner, whose image stays.                                   *)
BootStep(r) ==
    \/ M!Acquire(r) \/ M!TimesOut(r) \/ M!ReadJournal(r) \/ M!Migrate(r) \/ M!Look(r)
    \/ M!Apply(r) \/ M!Finish(r) \/ M!Dies(r) \/ M!Reconnects(r)

(* What Look and Apply do to one file, in the terms of the invariant.          *)
LEMMA LookedAt ==
    ASSUME BootInv, NEW r \in Runners, M!Look(r)
    PROVE  \E f \in DOMAIN image[r].files :
              /\ \A g \in DOMAIN image[r].files : g < f => g < next[r]
              /\ \/ /\ stored[f] = M!None /\ stored' = stored
                    /\ next' = [next EXCEPT ![r] = f] /\ at' = [at EXCEPT ![r] = "apply"]
                    /\ lock' = lock
                 \/ /\ stored[f] # M!None /\ RanAsImaged(r, f)
                    /\ stored' = [stored EXCEPT ![f] = M!Canonical(image[r].files[f])]
                    /\ next' = [next EXCEPT ![r] = f + 1] /\ at' = at /\ lock' = lock
                 \/ /\ stored' = stored /\ next' = next /\ at' = [at EXCEPT ![r] = "failed"]
                    /\ lock' = IF lock = r THEN Nobody ELSE lock
<1> DEFINE f == M!First(M!Left(r))
           text == image[r].files[f]
<1>1. f \in DOMAIN image[r].files /\ \A g \in DOMAIN image[r].files : g < f => g < next[r]
  BY FirstLeft DEF M!Look, BootInv
<1>2. f \in M!Names /\ text \in M!Texts
  BY <1>1, FileOfImage DEF BootInv, BootTypes, M!TypeOK
<1>3. ASSUME stored[f] \in M!Accepted(text) \cup {M!Untracked}
      PROVE  RanAsImaged(r, f) /\ stored[f] # M!None
  <2>1. M!None # M!Untracked
    BY DEF M!None, M!Untracked
  <2>2. M!None \notin M!Accepted(text)
    <3>1. \A c \in M!Accepted(text) : c.eol \in {"lf", "crlf"}
      BY <1>2, MigrationsAssumption DEF M!Accepted, M!Canonical
    <3> QED
      BY <3>1 DEF M!None
  <2>3. CASE stored[f] = M!Untracked
    BY <1>2, <2>1, <2>3 DEF BootInv, RowsAreRuns, RanAsImaged
  <2>4. CASE stored[f] \in M!Accepted(text)
    <3>1. stored[f].sql = text.sql
      BY <1>2, <2>4, ChecksumsDiffer
    <3> QED
      BY <1>2, <2>2, <2>4, <3>1 DEF BootInv, RowsAreRuns, RanAsImaged
  <2> QED
    BY <1>3, <2>3, <2>4
<1> QED
  BY <1>1, <1>3 DEF M!Look, M!Goes, M!Ends, M!Release


LEMMA AppliedTo ==
    ASSUME BootInv, NEW r \in Runners, M!Apply(r)
    PROVE  \E f \in DOMAIN image[r].files :
              /\ f = next[r]
              /\ \/ /\ stored[f] = M!None
                    /\ stored' = [stored EXCEPT ![f] = M!Canonical(image[r].files[f])]
                    /\ ran' = [ran EXCEPT ![f] = <<image[r].files[f].sql>>]
                    /\ next' = [next EXCEPT ![r] = f + 1] /\ at' = [at EXCEPT ![r] = "look"]
                    /\ lock' = lock
                 \/ /\ stored' = stored /\ ran' = ran /\ next' = next
                    /\ at' = [at EXCEPT ![r] = "failed"]
                    /\ lock' = IF lock = r THEN Nobody ELSE lock
<1> DEFINE f == next[r]
           text == image[r].files[f]
<1>1. f \in DOMAIN image[r].files /\ f \in M!Names
  BY FileOfImage DEF M!Apply, BootInv, BootTypes, M!TypeOK, PastAreRun
<1>2. CASE stored[f] = M!None
  <2>1. ran[f] = <<>>
    BY <1>1, <1>2 DEF BootInv, RowsAreRuns
  <2>2. Append(ran[f], text.sql) = <<text.sql>>
    BY <2>1
  <2> QED
    BY <1>1, <1>2, <2>2 DEF M!Apply, M!Goes
<1>3. CASE stored[f] # M!None
  BY <1>1, <1>3 DEF M!Apply, M!Goes, M!Ends, M!Release
<1> QED
  BY <1>2, <1>3

(* Every step keeps the types.                                               *)
LEMMA BootTypeStep ==
    ASSUME BootInv, NEW r \in Runners, BootStep(r)
    PROVE  BootTypes'
<1> USE DEF BootInv, BootTypes, M!TypeOK
<1>1. CASE M!Acquire(r)
  BY <1>1 DEF M!Acquire, M!Goes, M!Active, M!tables
<1>2. CASE M!TimesOut(r)
  BY <1>2 DEF M!TimesOut, M!Ends, M!Release, M!Goes, M!tables
<1>3. CASE M!ReadJournal(r)
  BY <1>3 DEF M!ReadJournal, M!Goes, M!Active, M!tables
<1>4. CASE M!Migrate(r)
  <2>1. image[r].gen \in 0..MaxGen
    BY MigrationsAssumption
  <2>2. journal' \in 0..MaxGen /\ ranGen' \in [1..MaxGen -> Nat]
    BY <1>4, <2>1 DEF M!Migrate
  <2> QED
    BY <1>4, <2>2 DEF M!Migrate, M!Goes, M!Active
<1>5. CASE M!Look(r)
  <2>1. PICK f \in DOMAIN image[r].files :
          /\ f \in M!Names /\ f \in Nat
          /\ M!Canonical(image[r].files[f]) \in Checksums
          /\ stored' \in {stored, [stored EXCEPT ![f] = M!Canonical(image[r].files[f])]}
          /\ next' \in {next, [next EXCEPT ![r] = f], [next EXCEPT ![r] = f + 1]}
          /\ at' \in {at, [at EXCEPT ![r] = "apply"], [at EXCEPT ![r] = "failed"]}
          /\ lock' \in {lock, Nobody}
    BY <1>5, LookedAt, FileOfImage, ChecksumsDiffer
  <2>2. stored' \in [M!Names -> Checksums] /\ next' \in [Runners -> Nat]
    <3>1. /\ stored \in [M!Names -> Checksums] /\ next \in [Runners -> Nat]
          /\ f + 1 \in Nat
      BY <2>1
    <3>2. next' \in [Runners -> Nat]
      BY <2>1, <3>1
    <3>3. stored' \in [M!Names -> Checksums]
      BY <2>1, <3>1
    <3> QED
      BY <3>2, <3>3
  <2>3. at' \in [Runners -> M!Active \cup {"done", "failed"}]
    BY <2>1 DEF M!Active
  <2> QED
    BY <1>5, <2>1, <2>2, <2>3 DEF M!Look
<1>6. CASE M!Apply(r)
  <2>1. PICK f \in DOMAIN image[r].files :
          /\ f \in M!Names /\ f \in Nat
          /\ M!Canonical(image[r].files[f]) \in Checksums
          /\ stored' \in {stored, [stored EXCEPT ![f] = M!Canonical(image[r].files[f])]}
          /\ DOMAIN ran' = DOMAIN ran
          /\ next' \in {next, [next EXCEPT ![r] = f + 1]}
          /\ at' \in {[at EXCEPT ![r] = "look"], [at EXCEPT ![r] = "failed"]}
          /\ lock' \in {lock, Nobody}
    BY <1>6, AppliedTo, FileOfImage, ChecksumsDiffer
  <2>2. stored' \in [M!Names -> Checksums] /\ next' \in [Runners -> Nat]
    <3>1. /\ stored \in [M!Names -> Checksums] /\ next \in [Runners -> Nat]
          /\ f + 1 \in Nat
      BY <2>1
    <3>2. next' \in [Runners -> Nat]
      BY <2>1, <3>1
    <3>3. stored' \in [M!Names -> Checksums]
      BY <2>1, <3>1
    <3> QED
      BY <3>2, <3>3
  <2>3. at' \in [Runners -> M!Active \cup {"done", "failed"}]
    BY <2>1 DEF M!Active
  <2> QED
    BY <1>6, <2>1, <2>2, <2>3 DEF M!Apply
<1>7. CASE M!Finish(r)
  BY <1>7 DEF M!Finish, M!Ends, M!Release, M!Goes, M!tables
<1>8. CASE M!Dies(r)
  BY <1>8 DEF M!Dies, M!Ends, M!Release, M!Goes, M!tables
<1>9. CASE M!Reconnects(r)
  BY <1>9 DEF M!Reconnects, M!tables
<1> QED
  BY <1>1, <1>2, <1>3, <1>4, <1>5, <1>6, <1>7, <1>8, <1>9 DEF BootStep

(* Only the transaction of a manual file changes what was run of it.           *)
LEMMA RowsStep ==
    ASSUME BootInv, NEW r \in Runners, BootStep(r)
    PROVE  RowsAreRuns'
<1> USE DEF RowsAreRuns
<1>1. CASE M!Look(r)
  <2>1. PICK f \in DOMAIN image[r].files :
          \/ stored' = stored
          \/ /\ stored[f] # M!None /\ RanAsImaged(r, f)
             /\ stored' = [stored EXCEPT ![f] = M!Canonical(image[r].files[f])]
    BY <1>1, LookedAt
  <2>2. ran' = ran /\ unchecked' = unchecked
    BY <1>1 DEF M!Look
  <2>3. CASE stored' = stored
    BY <2>2, <2>3 DEF BootInv
  <2>4. CASE stored' # stored
    <3> DEFINE text == image[r].files[f]
    <3>1. text \in M!Texts /\ f \in M!Names
      BY FileOfImage DEF BootInv, BootTypes, M!TypeOK
    <3>2. /\ M!Canonical(text) \notin {M!None, M!Untracked}
          /\ M!Canonical(text).sql = text.sql
      BY <3>1, ChecksumsDiffer
    <3>3. \A g \in M!Names : stored'[g] = IF g = f THEN M!Canonical(text) ELSE stored[g]
      BY <2>1, <2>4 DEF BootInv, BootTypes
    <3> QED
      BY <2>1, <2>2, <2>4, <3>1, <3>2, <3>3 DEF BootInv, RanAsImaged
  <2> QED
    BY <2>3, <2>4
<1>2. CASE M!Apply(r)
  <2>1. PICK f \in DOMAIN image[r].files :
          \/ stored' = stored /\ ran' = ran
          \/ /\ stored[f] = M!None
             /\ stored' = [stored EXCEPT ![f] = M!Canonical(image[r].files[f])]
             /\ ran' = [ran EXCEPT ![f] = <<image[r].files[f].sql>>]
    BY <1>2, AppliedTo
  <2>2. unchecked' = unchecked
    BY <1>2 DEF M!Apply
  <2>3. CASE stored' = stored /\ ran' = ran
    BY <2>2, <2>3 DEF BootInv
  <2>4. CASE ~(stored' = stored /\ ran' = ran)
    <3> DEFINE text == image[r].files[f]
    <3>1. text \in M!Texts /\ f \in M!Names
      BY FileOfImage DEF BootInv, BootTypes, M!TypeOK
    <3>2. /\ M!Canonical(text) \notin {M!None, M!Untracked}
          /\ M!Canonical(text).sql = text.sql
      BY <3>1, ChecksumsDiffer
    <3>3. \A g \in M!Names :
            /\ stored'[g] = IF g = f THEN M!Canonical(text) ELSE stored[g]
            /\ ran'[g] = IF g = f THEN <<text.sql>> ELSE ran[g]
      BY <2>1, <2>4 DEF BootInv, BootTypes
    <3> QED
      BY <2>1, <2>2, <2>4, <3>1, <3>2, <3>3 DEF BootInv
  <2> QED
    BY <2>3, <2>4
<1>3. CASE ~M!Look(r) /\ ~M!Apply(r)
  BY <1>3 DEF BootInv, BootStep, M!Acquire, M!TimesOut, M!ReadJournal, M!Migrate, M!Finish,
              M!Dies, M!Reconnects, M!tables
<1> QED
  BY <1>1, <1>2, <1>3


(* What was run stays so, and a runner only passes a file that was.            *)
LEMMA PastStep ==
    ASSUME BootInv, NEW r \in Runners, BootStep(r)
    PROVE  PastAreRun'
<1> USE DEF PastAreRun
<1>1. image' = image /\ unchecked' = unchecked
  BY DEF BootStep, M!Acquire, M!TimesOut, M!ReadJournal, M!Migrate, M!Look, M!Apply, M!Finish,
         M!Dies, M!Reconnects, M!tables
<1>2. \A q \in Runners : \A f \in DOMAIN image[q].files : f \in Nat \ {0} /\ f \in M!Names
  BY FileOfImage DEF BootInv, BootTypes, M!TypeOK
<1>3. at \in [Runners -> M!Active \cup {"done", "failed"}] /\ next \in [Runners -> Nat]
  BY DEF BootInv, BootTypes, M!TypeOK
<1>4. CASE M!Look(r)
  <2>1. PICK f \in DOMAIN image[r].files :
          /\ \A g \in DOMAIN image[r].files : g < f => g < next[r]
          /\ \/ next' = [next EXCEPT ![r] = f] /\ at' = [at EXCEPT ![r] = "apply"]
             \/ /\ RanAsImaged(r, f)
                /\ next' = [next EXCEPT ![r] = f + 1] /\ at' = at
             \/ next' = next /\ at' = [at EXCEPT ![r] = "failed"]
    BY <1>4, LookedAt
  <2>2. ran' = ran /\ at[r] = "look"
    BY <1>4 DEF M!Look
  <2>3. \A q \in Runners, g \in M!Names : RanAsImaged(q, g) => RanAsImaged(q, g)'
    BY <1>1, <2>2 DEF RanAsImaged
  <2>4. \A g \in DOMAIN image[r].files : g < f + 1 => g < f \/ g = f
    BY <1>2
  <2>5. ASSUME NEW q \in Runners, q # r
        PROVE  at'[q] = at[q] /\ next'[q] = next[q]
    BY <1>3, <2>1, <2>5
  <2>6. ASSUME NEW g \in DOMAIN image[r].files, g < next'[r] \/ at'[r] = "done"
        PROVE  RanAsImaged(r, g)
    BY <1>3, <2>1, <2>2, <2>4, <2>6 DEF BootInv
  <2>7. at'[r] = "apply" => next'[r] \in DOMAIN image[r].files
    BY <1>3, <2>1, <2>2 DEF BootInv
  <2> QED
    BY <1>1, <1>2, <2>3, <2>5, <2>6, <2>7 DEF BootInv
<1>5. CASE M!Apply(r)
  <2>1. PICK f \in DOMAIN image[r].files :
          /\ f = next[r]
          /\ \/ /\ stored[f] = M!None
                /\ ran' = [ran EXCEPT ![f] = <<image[r].files[f].sql>>]
                /\ next' = [next EXCEPT ![r] = f + 1] /\ at' = [at EXCEPT ![r] = "look"]
             \/ ran' = ran /\ next' = next /\ at' = [at EXCEPT ![r] = "failed"]
    BY <1>5, AppliedTo
  <2>2. DOMAIN ran = M!Names /\ at[r] = "apply"
    BY <1>5 DEF BootInv, BootTypes, M!Apply
  <2>3. stored[f] = M!None => ran[f] = <<>> /\ f \notin unchecked
    BY <1>2 DEF BootInv, RowsAreRuns
  <2>4. \A q \in Runners, g \in M!Names : RanAsImaged(q, g) => RanAsImaged(q, g)'
    <3> SUFFICES ASSUME NEW q \in Runners, NEW g \in M!Names, RanAsImaged(q, g)
                 PROVE  RanAsImaged(q, g)'
      OBVIOUS
    <3>1. CASE g = f /\ stored[f] = M!None
      <4>1. <<image[q].files[g].sql>> # <<>>
        OBVIOUS
      <4> QED
        BY <2>3, <3>1, <4>1 DEF RanAsImaged
    <3>2. CASE ran'[g] = ran[g]
      BY <1>1, <3>2 DEF RanAsImaged
    <3>3. ran'[g] = ran[g] \/ (g = f /\ stored[f] = M!None)
      BY <2>1, <2>2
    <3> QED
      BY <3>1, <3>2, <3>3
  <2>5. next'[r] = f + 1 => RanAsImaged(r, f)'
    BY <1>1, <1>2, <1>3, <2>1, <2>2 DEF RanAsImaged
  <2>6. \A g \in DOMAIN image[r].files : g < f + 1 => g < f \/ g = f
    BY <1>2
  <2>7. ASSUME NEW q \in Runners, q # r
        PROVE  at'[q] = at[q] /\ next'[q] = next[q]
    BY <1>3, <2>1, <2>7
  <2>8. at'[r] \in {"look", "failed"} /\ next'[r] \in {f, f + 1}
    BY <1>3, <2>1
  <2>9. ASSUME NEW g \in DOMAIN image[r].files, g < next'[r] \/ at'[r] = "done"
        PROVE  RanAsImaged(r, g)'
    <3>1. CASE g < next[r]
      BY <1>2, <2>4, <3>1 DEF BootInv
    <3>2. CASE ~(g < next[r])
      BY <2>1, <2>5, <2>6, <2>8, <2>9, <3>2
    <3> QED
      BY <3>1, <3>2
  <2> QED
    BY <1>1, <1>2, <2>4, <2>7, <2>8, <2>9 DEF BootInv
<1>6. CASE M!Finish(r)
  <2>1. at' = [at EXCEPT ![r] = "done"] /\ next' = next /\ ran' = ran
    BY <1>6 DEF M!Finish, M!Ends, M!Goes, M!tables
  <2>2. \A f \in DOMAIN image[r].files : f < next[r]
    BY <1>2, <1>3, <1>6 DEF M!Finish, M!Left
  <2> QED
    BY <1>1, <1>3, <2>1, <2>2 DEF BootInv, RanAsImaged
<1>7. CASE ~M!Look(r) /\ ~M!Apply(r) /\ ~M!Finish(r)
  <2>1. next' = next /\ ran' = ran
    BY <1>7 DEF BootStep, M!Acquire, M!TimesOut, M!ReadJournal, M!Migrate, M!Dies, M!Reconnects,
                M!tables
  <2>2. \A q \in Runners : at'[q] = at[q] \/ at'[q] \notin {"apply", "done"}
    BY <1>3, <1>7 DEF BootStep, M!Acquire, M!TimesOut, M!ReadJournal, M!Migrate, M!Dies,
                      M!Reconnects, M!Ends, M!Goes
  <2> QED
    BY <1>1, <2>1, <2>2 DEF BootInv, RanAsImaged
<1> QED
  BY <1>4, <1>5, <1>6, <1>7

(* The journal grows to what was run.                                        *)
LEMMA JournalStep ==
    ASSUME BootInv, NEW r \in Runners, BootStep(r)
    PROVE  JournalIsRun'
<1> USE DEF JournalIsRun
<1>1. /\ at \in [Runners -> M!Active \cup {"done", "failed"}] /\ saw \in [Runners -> 0..MaxGen]
      /\ journal \in 0..MaxGen /\ ranGen \in [1..MaxGen -> Nat]
  BY DEF BootInv, BootTypes, M!TypeOK
<1>2. \A q \in Runners : image[q].gen \in 0..MaxGen
  BY MigrationsAssumption DEF BootInv, BootTypes, M!TypeOK
<1>3. MaxGen \in Nat
  BY MigrationsAssumption
<1>4. CASE M!ReadJournal(r)
  BY <1>1, <1>2, <1>4 DEF BootInv, M!ReadJournal, M!Goes, M!tables
<1>5. CASE M!Migrate(r)
  <2>1. /\ saw' = saw /\ image' = image /\ at' = [at EXCEPT ![r] = "look"]
        /\ \A g \in 1..MaxGen :
              ranGen'[g] = ranGen[g] + IF g > saw[r] /\ g <= image[r].gen THEN 1 ELSE 0
    BY <1>1, <1>2, <1>5 DEF M!Migrate, M!Goes
  <2>2. /\ journal' \in {journal, image[r].gen}
        /\ journal <= journal' /\ image[r].gen <= journal'
    <3>1. saw[r] <= journal
      BY DEF BootInv
    <3>2. CASE (saw[r] + 1)..image[r].gen = {}
      <4>1. image[r].gen <= saw[r]
        <5> SUFFICES ASSUME image[r].gen > saw[r] PROVE FALSE
          BY <1>1, <1>2
        <5>1. saw[r] + 1 \in (saw[r] + 1)..image[r].gen
          BY <1>1, <1>2
        <5> QED
          BY <3>2, <5>1
      <4> QED
        BY <1>1, <1>2, <1>5, <3>1, <3>2, <4>1 DEF M!Migrate
    <3>3. CASE (saw[r] + 1)..image[r].gen # {}
      BY <1>1, <1>2, <1>5, <3>3 DEF M!Migrate
    <3> QED
      BY <3>2, <3>3
  <2>3. ASSUME NEW g \in 1..journal' PROVE ranGen'[g] >= 1
    <3>1. g \in 1..MaxGen
      BY <1>1, <1>2, <1>3, <2>2
    <3>2. ranGen[g] \in Nat
      BY <1>1, <3>1
    <3>3. CASE g <= journal
      BY <1>1, <2>1, <3>1, <3>2, <3>3 DEF BootInv
    <3>4. CASE g > journal
      <4>1. g > saw[r] /\ g <= image[r].gen
        BY <1>1, <1>2, <2>2, <3>1, <3>4 DEF BootInv
      <4> QED
        BY <2>1, <3>1, <3>2, <4>1
    <3> QED
      BY <1>1, <3>1, <3>3, <3>4
  <2>4. \A q \in Runners : saw'[q] <= journal'
    BY <1>1, <1>2, <2>1, <2>2 DEF BootInv
  <2>5. \A q \in Runners : at'[q] \in {"look", "apply", "done"} => image'[q].gen <= journal'
    BY <1>1, <1>2, <2>1, <2>2 DEF BootInv
  <2> QED
    BY <2>3, <2>4, <2>5
<1>6. CASE ~M!ReadJournal(r) /\ ~M!Migrate(r)
  <2>1. journal' = journal /\ ranGen' = ranGen /\ saw' = saw /\ image' = image
    BY <1>6 DEF BootStep, M!Acquire, M!TimesOut, M!Look, M!Apply, M!Finish, M!Dies, M!Reconnects,
                M!tables
  <2>2. \A q \in Runners :
          at'[q] \in {"look", "apply", "done"} => at[q] \in {"look", "apply", "done"}
    BY <1>1, <1>6 DEF BootStep, M!Acquire, M!TimesOut, M!Look, M!Apply, M!Finish, M!Dies,
                      M!Reconnects, M!Ends, M!Goes
  <2> QED
    BY <2>1, <2>2 DEF BootInv
<1> QED
  BY <1>4, <1>5, <1>6

(* While the lock lasts, no one applies what another did.                     *)
LEMMA LockStep ==
    ASSUME BootInv, NEW r \in Runners, BootStep(r)
    PROVE  LockKeepsApart'
<1> USE DEF LockKeepsApart
<1>1. /\ at \in [Runners -> M!Active \cup {"done", "failed"}] /\ saw \in [Runners -> 0..MaxGen]
      /\ journal \in 0..MaxGen /\ ranGen \in [1..MaxGen -> Nat] /\ Nobody \notin Runners
  BY MigrationsAssumption DEF BootInv, BootTypes, M!TypeOK
<1>2. CASE M!Acquire(r)
  BY <1>1, <1>2 DEF BootInv, M!Acquire, M!LockIsFree, M!Goes, M!tables, M!Active
<1>3. CASE M!ReadJournal(r)
  BY <1>1, <1>3 DEF BootInv, M!ReadJournal, M!Goes, M!tables, M!Active
<1>4. CASE M!Migrate(r)
  <2> SUFFICES ASSUME ~lapsed PROVE LockKeepsApart'
    BY <1>4 DEF M!Migrate
  <2>1. /\ saw' = saw /\ lock' = lock /\ at' = [at EXCEPT ![r] = "look"]
        /\ saw[r] = journal /\ image[r].gen \in 0..MaxGen /\ MaxGen \in Nat
    BY <1>4, MigrationsAssumption DEF M!Migrate, M!Goes, BootInv, BootTypes, M!TypeOK
  <2>2. \A g \in 1..MaxGen :
          ranGen'[g] = ranGen[g] + IF g > journal /\ g <= image[r].gen THEN 1 ELSE 0
    BY <1>1, <1>4, <2>1 DEF M!Migrate
  <2>3. journal' = IF image[r].gen > journal THEN image[r].gen ELSE journal
    <3>1. CASE image[r].gen > journal
      <4>1. journal + 1 \in (saw[r] + 1)..image[r].gen
        BY <1>1, <2>1, <3>1
      <4> QED
        BY <1>1, <1>4, <2>1, <3>1, <4>1 DEF M!Migrate
    <3>2. CASE ~(image[r].gen > journal)
      <4>1. (saw[r] + 1)..image[r].gen = {}
        BY <1>1, <2>1, <3>2
      <4> QED
        BY <1>4, <3>2, <4>1 DEF M!Migrate
    <3> QED
      BY <3>1, <3>2
  <2>4. \A g \in 1..MaxGen : ranGen'[g] <= IF g <= journal' THEN 1 ELSE 0
    <3> SUFFICES ASSUME NEW g \in 1..MaxGen
                 PROVE  ranGen'[g] <= IF g <= journal' THEN 1 ELSE 0
      OBVIOUS
    <3>1. ranGen[g] \in Nat /\ ranGen[g] <= IF g <= journal THEN 1 ELSE 0
      BY <1>1 DEF BootInv
    <3> QED
      BY <1>1, <2>1, <2>2, <2>3, <3>1
  <2>5. at[r] = "migrate" /\ lock = r
    BY <1>4 DEF BootInv, M!Migrate, M!Active
  <2>6. \A q \in Runners : q # r => at'[q] \notin M!Active \ {"lock"}
    BY <1>1, <2>1, <2>5 DEF BootInv
  <2>7. at'[r] = "look"
    BY <1>1, <2>1
  <2> QED
    BY <2>1, <2>4, <2>5, <2>6, <2>7 DEF M!Active
<1>5. CASE M!Reconnects(r)
  BY <1>5 DEF M!Reconnects
<1>6. CASE ~M!Acquire(r) /\ ~M!ReadJournal(r) /\ ~M!Migrate(r) /\ ~M!Reconnects(r)
  <2>1. journal' = journal /\ ranGen' = ranGen /\ saw' = saw /\ lapsed' = lapsed
    BY <1>6 DEF BootStep, M!TimesOut, M!Look, M!Apply, M!Finish, M!Dies, M!tables
  <2>2. /\ \A q \in Runners \ {r} : at'[q] = at[q]
        /\ lock' = lock \/ (lock = r /\ lock' = Nobody /\ at'[r] \in {"done", "failed"})
        /\ \/ at'[r] \in {"done", "failed"}
           \/ (at[r] \in {"look", "apply"} /\ at'[r] \in {"look", "apply"})
    <3>1. CASE M!TimesOut(r) \/ M!Finish(r) \/ M!Dies(r)
      BY <1>1, <3>1 DEF M!TimesOut, M!Finish, M!Dies, M!Ends, M!Goes, M!Release
    <3>2. CASE M!Look(r)
      BY <1>1, <3>2, LookedAt DEF M!Look
    <3>3. CASE M!Apply(r)
      <4>1. at[r] = "apply"
        BY <3>3 DEF M!Apply
      <4>2. \/ at' = [at EXCEPT ![r] = "look"] /\ lock' = lock
            \/ /\ at' = [at EXCEPT ![r] = "failed"]
               /\ lock' = IF lock = r THEN Nobody ELSE lock
        BY <3>3, AppliedTo
      <4> QED
        BY <1>1, <4>1, <4>2
    <3> QED
      BY <1>6, <3>1, <3>2, <3>3 DEF BootStep
  <2> QED
    BY <1>1, <2>1, <2>2 DEF BootInv, M!Active
<1> QED
  BY <1>2, <1>3, <1>4, <1>5, <1>6 DEF BootStep

(* The inductive invariant always holds: the journal and the rows of the       *)
(* bookkeeping say what was run, for every runner as far as it has come.       *)
THEOREM BootInvAlways == M!Spec => []BootInv
<1>1. BootInv /\ [M!Next]_(M!vars) => BootInv'
  <2> SUFFICES ASSUME BootInv, [M!Next]_(M!vars) PROVE BootInv'
    OBVIOUS
  <2>1. ASSUME NEW r \in Runners, BootStep(r) PROVE BootInv'
    BY <2>1, BootTypeStep, RowsStep, PastStep, JournalStep, LockStep DEF BootInv
  <2>2. CASE UNCHANGED M!vars
    BY <2>2 DEF BootInv, BootTypes, M!TypeOK, RowsAreRuns, PastAreRun, RanAsImaged, JournalIsRun,
                LockKeepsApart, M!vars
  <2> QED
    BY <2>1, <2>2 DEF M!Next, BootStep
<1> QED
  BY <1>1, BootInit, PTL DEF M!Spec

(* However replicas boot, die and lose the lock, no manual file is applied     *)
(* twice, no generated migration while the lock lasts, and a runner that       *)
(* reports the database up to date is right.                                 *)
THEOREM BootsMigrateOnce == M!Spec => []MigratedOnce
<1>1. BootInv => MigratedOnce
  <2> SUFFICES ASSUME BootInv PROVE MigratedOnce
    OBVIOUS
  <2>1. \A f \in M!Names : Len(ran[f]) <= 1
    <3> SUFFICES ASSUME NEW f \in M!Names PROVE Len(ran[f]) <= 1
      OBVIOUS
    <3>1. ran[f] = <<>> \/ ran[f] = <<stored[f].sql>>
      BY DEF BootInv, RowsAreRuns
    <3>2. Len(<<>>) = 0 /\ Len(<<stored[f].sql>>) = 1
      OBVIOUS
    <3>3. Len(ran[f]) = 0 \/ Len(ran[f]) = 1
      BY <3>1, <3>2, Zenon
    <3> DEFINE times == Len(ran[f])
    <3> HIDE DEF times
    <3>4. times \in {0, 1} => times <= 1
      OBVIOUS
    <3> QED
      BY <3>3, <3>4 DEF times
  <2>2. lapsed \/ \A g \in 1..MaxGen : ranGen[g] <= 1
    <3> SUFFICES ASSUME ~lapsed, NEW g \in 1..MaxGen PROVE ranGen[g] <= 1
      OBVIOUS
    <3>1. ranGen[g] \in Nat /\ ranGen[g] <= IF g <= journal THEN 1 ELSE 0
      BY DEF BootInv, BootTypes, LockKeepsApart
    <3> QED
      BY <3>1
  <2>3. ASSUME NEW r \in Runners, at[r] = "done"
        PROVE  /\ \A g \in 1..image[r].gen : ranGen[g] >= 1
               /\ \A f \in DOMAIN image[r].files :
                     f \in unchecked \/ ran[f] = <<image[r].files[f].sql>>
    <3>1. image[r].gen <= journal /\ journal \in Nat /\ image[r].gen \in Nat
      BY <2>3, MigrationsAssumption DEF BootInv, BootTypes, M!TypeOK, JournalIsRun
    <3> QED
      BY <2>3, <3>1 DEF BootInv, JournalIsRun, PastAreRun, RanAsImaged
  <2> QED
    BY <2>1, <2>2, <2>3 DEF MigratedOnce, M!MigratedOnce
<1> QED
  BY <1>1, BootInvAlways, PTL


-----------------------------------------------------------------------------
(* ReportExports, for any number of exports and workers.                     *)

(* A run that holds its lock is the one with its job.                         *)
OneHolder ==
    \A w \in locks :
        /\ run[w] # E!Idle /\ job[run[w].e] = "active"
        /\ \A v \in locks : run[v].e = run[w].e => v = w

(* Until its enqueue has landed, an export has no job.                        *)
JobAfterRow ==
    \A e \in Exports :
        /\ export[e] = "none" <=> exp[e] = "absent"
        /\ export[e] \in {"none", "enqueue"} => job[e] = "none" /\ e \notin late
        /\ e \in late => job[e] = "none"

(* What a run has found or done so far.                                       *)
RunsInOrder ==
    \A w \in Workers : run[w] # E!Idle =>
        /\ exp[run[w].e] # "absent"
        /\ run[w].at = "settle" => run[w].e \in object
        /\ run[w].at = "done" => exp[run[w].e] \in {"ready", "failed"}

(* The inductive invariant.                                                  *)
ExportInv == E!TypeOK /\ OneHolder /\ JobAfterRow /\ RunsInOrder /\ ExportsComeOut

LEMMA ExportInit == E!Init => ExportInv
<1> SUFFICES ASSUME E!Init PROVE ExportInv
  OBVIOUS
<1> USE DEF E!Init
<1>1. E!TypeOK
  BY FaultsAssumption DEF E!TypeOK
<1>2. OneHolder /\ JobAfterRow /\ RunsInOrder
  BY DEF OneHolder, JobAfterRow, RunsInOrder
<1>3. ExportsComeOut
  BY DEF ExportsComeOut, E!ExportsComeOut
<1> QED
  BY <1>1, <1>2, <1>3 DEF ExportInv

(* A worker that is not idle has an export at hand.                           *)
Steps == {"look", "upload", "settle", "catch", "done", "throw"}
LEMMA AtHand ==
    ASSUME E!TypeOK, NEW w \in Workers
    PROVE  /\ run[w] # E!Idle => run[w].e \in Exports /\ run[w].at \in Steps
           /\ run[w].at \in Steps => run[w] # E!Idle
           /\ \A step \in Steps : run[w] # E!Idle =>
                 [run[w] EXCEPT !.at = step] = [at |-> step, e |-> run[w].e]
<1>1. run[w] \in {E!Idle} \cup [at : Steps, e : Exports]
  BY DEF E!TypeOK, Steps
<1>2. E!Idle.at \notin Steps
  BY DEF E!Idle, Steps
<1> QED
  BY <1>1, <1>2

(* A run that goes on to another step keeps its export.                        *)
LEMMA WentOn ==
    ASSUME ExportInv, NEW w \in Workers, NEW step \in Steps, run[w].at \in Steps, E!To(w, step)
    PROVE  /\ run[w] # E!Idle /\ run[w].e \in Exports
           /\ run' \in [Workers -> {E!Idle} \cup [at : Steps, e : Exports]]
           /\ \A v \in Workers :
                 /\ run'[v] # E!Idle <=> run[v] # E!Idle
                 /\ run'[v].e = run[v].e
                 /\ run'[v].at = IF v = w THEN step ELSE run[v].at
<1>1. run \in [Workers -> {E!Idle} \cup [at : Steps, e : Exports]]
  BY DEF ExportInv, E!TypeOK, Steps
<1>2. /\ run[w] # E!Idle /\ run[w].e \in Exports
      /\ run'[w] = [at |-> step, e |-> run[w].e]
  BY <1>1, AtHand DEF E!To, ExportInv
<1>3. \A v \in Workers : v # w => run'[v] = run[v]
  BY <1>1 DEF E!To
<1>4. [at |-> step, e |-> run[w].e] # E!Idle
  <2>1. E!Idle.at \notin Steps
    BY DEF E!Idle, Steps
  <2> QED
    BY <2>1
<1>5. run' \in [Workers -> {E!Idle} \cup [at : Steps, e : Exports]]
  <2>1. run' = [v \in Workers |-> run'[v]]
    BY <1>1 DEF E!To
  <2>2. \A v \in Workers : run'[v] \in {E!Idle} \cup [at : Steps, e : Exports]
    BY <1>1, <1>2, <1>3
  <2> QED
    BY <2>1, <2>2
<1> QED
  BY <1>2, <1>3, <1>4, <1>5

(* The UPDATE of a run only settles what is in processing.                     *)
LEMMA SettledOnce ==
    ASSUME ExportInv, NEW e \in Exports, NEW outcome \in {"ready", "failed"},
           exp' = E!Settled(e, outcome), exp[e] # "absent"
    PROVE  /\ exp' \in [Exports -> {"absent", "processing", "ready", "failed"}]
           /\ exp'[e] \in {"ready", "failed"}
           /\ exp[e] = "processing" => exp'[e] = outcome
           /\ \A d \in Exports : exp'[d] = exp[d] \/ (d = e /\ exp[e] = "processing")
BY DEF E!Settled, ExportInv, E!TypeOK


(* The steps of the request touch no run and no lock.                         *)
AskStep(e) ==
    \/ E!Request(e) \/ E!Enqueue(e) \/ E!EnqueueThrows(e) \/ E!LateEnqueue(e)
    \/ E!MarkFailed(e) \/ E!RequestDies(e)
LEMMA ExportAskStep ==
    ASSUME ExportInv, NEW e \in Exports, AskStep(e)
    PROVE  ExportInv'
<1> USE DEF AskStep, E!Request, E!Enqueue, E!EnqueueThrows, E!LateEnqueue, E!MarkFailed,
            E!RequestDies
<1>1. /\ exp \in [Exports -> {"absent", "processing", "ready", "failed"}]
      /\ export \in [Exports -> {"none", "enqueue", "mark", "done", "dead"}]
      /\ job \in [Exports -> {"none", "waiting", "active", "completed", "failed"}]
      /\ \A w \in Workers : run[w] # E!Idle => run[w].e \in Exports
      /\ locks \subseteq Workers
  BY AtHand DEF ExportInv, E!TypeOK
<1>2. run' = run /\ locks' = locks /\ object' = object
  OBVIOUS
<1>3. E!TypeOK'
  BY DEF ExportInv, E!TypeOK
<1>4. \A d \in Exports :
        /\ d # e => exp'[d] = exp[d] /\ export'[d] = export[d] /\ job'[d] = job[d]
        /\ job[d] = "active" => job'[d] = "active"
  <2>1. job[e] = "none" \/ job'[e] = job[e]
    BY <1>1 DEF ExportInv, JobAfterRow
  <2> QED
    BY <1>1, <2>1
<1>5. OneHolder'
  BY <1>1, <1>2, <1>4 DEF ExportInv, OneHolder
<1>6. JobAfterRow'
  BY <1>1 DEF ExportInv, JobAfterRow
<1>7. RunsInOrder'
  <2>1. \A d \in Exports :
          /\ exp[d] # "absent" => exp'[d] # "absent"
          /\ exp[d] \in {"ready", "failed"} => exp'[d] \in {"ready", "failed"}
    BY <1>1
  <2> QED
    BY <1>1, <1>2, <2>1 DEF ExportInv, RunsInOrder
<1>8. ExportsComeOut'
  <2>1. \A d \in Exports : exp'[d] = "ready" => d \in object'
    BY <1>1, <1>2 DEF ExportInv, ExportsComeOut, E!ExportsComeOut
  <2>2. ASSUME NEW d \in Exports, exp'[d] = "processing" PROVE E!Attended(d)'
    <3>1. CASE d # e \/ E!LateEnqueue(e)
      <4>1. E!Attended(d)
        BY <1>1, <1>4, <2>2, <3>1 DEF ExportInv, ExportsComeOut, E!ExportsComeOut
      <4>2. /\ export'[d] = export[d] /\ dropped \subseteq dropped'
            /\ job'[d] \in {job[d], "waiting"}
        BY <1>1, <1>4, <3>1
      <4> QED
        BY <1>2, <4>1, <4>2 DEF E!Attended
    <3>2. CASE d = e /\ ~E!LateEnqueue(e)
      BY <1>1, <2>2, <3>2 DEF E!Attended
    <3> QED
      BY <3>1, <3>2
  <2> QED
    BY <2>1, <2>2 DEF ExportsComeOut, E!ExportsComeOut
<1> QED
  BY <1>3, <1>5, <1>6, <1>7, <1>8 DEF ExportInv

LEMMA ExportTakeStep ==
    ASSUME ExportInv, NEW e \in Exports, NEW w \in Workers, E!RunTakes(w, e)
    PROVE  ExportInv'
<1> USE DEF E!RunTakes
<1> DEFINE taken == [at |-> "look", e |-> e]
<1>1. /\ job \in [Exports -> {"none", "waiting", "active", "completed", "failed"}]
      /\ run \in [Workers -> {E!Idle} \cup [at : Steps, e : Exports]]
      /\ \A v \in Workers : run[v] # E!Idle => run[v].e \in Exports
      /\ locks \subseteq Workers
  BY AtHand DEF ExportInv, E!TypeOK, Steps
<1>2. taken # E!Idle /\ taken \in [at : Steps, e : Exports]
  <2>1. taken.at \in Steps /\ E!Idle.at \notin Steps
    BY DEF E!Idle, Steps
  <2> QED
    BY <2>1
<1>3. run'[w] = taken /\ \A v \in Workers : v # w => run'[v] = run[v]
  BY <1>1
<1>4. E!TypeOK'
  <2>1. run' \in [Workers -> {E!Idle} \cup [at : Steps, e : Exports]]
    BY <1>1, <1>2
  <2> QED
    BY <2>1 DEF ExportInv, E!TypeOK, Steps
<1>5. w \notin locks /\ \A v \in locks : run[v].e # e
  BY DEF ExportInv, OneHolder
<1>6. OneHolder'
  <2>1. \A v \in locks : run'[v] = run[v] /\ job'[run[v].e] = job[run[v].e]
    BY <1>1, <1>3, <1>5 DEF ExportInv, OneHolder
  <2>2. run'[w].e = e /\ job'[e] = "active"
    BY <1>1, <1>3
  <2> QED
    BY <1>2, <1>3, <1>5, <2>1, <2>2 DEF ExportInv, OneHolder
<1>7. export[e] # "none" /\ exp[e] # "absent"
  BY DEF ExportInv, JobAfterRow
<1>8. JobAfterRow'
  BY <1>1 DEF ExportInv, JobAfterRow
<1>9. RunsInOrder'
  <2>1. run'[w].e = e /\ run'[w].at = "look"
    BY <1>3
  <2> QED
    BY <1>3, <1>7, <2>1 DEF ExportInv, RunsInOrder
<1>10. ExportsComeOut'
  <2> SUFFICES ASSUME NEW d \in Exports, exp[d] = "processing" PROVE E!Attended(d)'
    BY DEF ExportInv, ExportsComeOut, E!ExportsComeOut
  <2>1. E!Attended(d)
    BY DEF ExportInv, ExportsComeOut, E!ExportsComeOut
  <2>2. run'[w] # E!Idle /\ run'[w].e = e /\ run'[w].at # "throw"
    BY <1>2, <1>3
  <2>3. CASE d = e
    BY <2>2, <2>3 DEF E!Attended
  <2>4. CASE d # e
    <3>1. job'[d] = job[d]
      BY <1>1, <2>4
    <3> QED
      BY <1>3, <2>1, <3>1 DEF E!Attended
  <2> QED
    BY <2>3, <2>4
<1> QED
  BY <1>4, <1>6, <1>8, <1>9, <1>10 DEF ExportInv

(* The steps of a run that goes on: its locks and its job stay.                *)
OnStep(w) ==
    \/ E!RunLooks(w) \/ E!RunUploads(w) \/ E!RunSettles(w) \/ E!RunThrows(w)
    \/ E!RunMarksFailed(w) \/ E!CatchThrows(w)
LEMMA ExportOnStep ==
    ASSUME ExportInv, NEW w \in Workers, OnStep(w)
    PROVE  ExportInv'
<1> DEFINE e == run[w].e
<1> USE DEF OnStep, E!RunLooks, E!RunUploads, E!RunSettles, E!RunThrows, E!RunMarksFailed,
            E!CatchThrows
<1>1. PICK step \in Steps : E!To(w, step) /\ run[w].at \in Steps
  BY DEF Steps, E!Caught
<1>2. /\ run[w] # E!Idle /\ e \in Exports
      /\ run' \in [Workers -> {E!Idle} \cup [at : Steps, e : Exports]]
      /\ \A v \in Workers :
            /\ run'[v] # E!Idle <=> run[v] # E!Idle
            /\ run'[v].e = run[v].e
            /\ run'[v].at = IF v = w THEN step ELSE run[v].at
  BY <1>1, WentOn
<1>3. exp[e] # "absent"
  BY <1>2 DEF ExportInv, RunsInOrder
<1>4. /\ export' = export /\ job' = job /\ locks' = locks /\ late' = late
      /\ object \subseteq object' /\ dropped \subseteq dropped'
  OBVIOUS
<1>5. /\ exp' \in [Exports -> {"absent", "processing", "ready", "failed"}]
      /\ \A d \in Exports :
            \/ exp'[d] = exp[d]
            \/ d = e /\ exp[e] = "processing" /\ exp'[e] \in {"ready", "failed"}
  <2>1. CASE exp' = exp
    BY <2>1 DEF ExportInv, E!TypeOK
  <2>2. CASE exp' # exp
    BY <1>2, <1>3, <2>2, SettledOnce
  <2> QED
    BY <2>1, <2>2
<1>6. E!TypeOK'
  <2>1. object' \subseteq Exports /\ dropped' \subseteq Exports /\ faults' \in 0..MaxFaults
    BY <1>2, FaultsAssumption DEF ExportInv, E!TypeOK
  <2> QED
    BY <1>2, <1>4, <1>5, <2>1 DEF ExportInv, E!TypeOK, Steps
<1>7. OneHolder'
  <2>1. locks \subseteq Workers
    BY DEF ExportInv, E!TypeOK
  <2> QED
    BY <1>2, <1>4, <2>1 DEF ExportInv, OneHolder
<1>8. JobAfterRow'
  BY <1>4, <1>5 DEF ExportInv, JobAfterRow
<1>9. \A v \in Workers : run[v] # E!Idle => run[v].e \in Exports
  BY AtHand DEF ExportInv
<1>10. /\ run'[w].at = "settle" => e \in object'
       /\ run'[w].at = "done" => exp'[e] \in {"ready", "failed"}
       /\ exp'[e] = "ready" => e \in object'
       /\ exp'[e] = "processing" => e \in dropped' \/ run'[w].at \notin {"done", "throw"}
  <2>1. /\ exp[e] = "ready" => e \in object
        /\ run[w].at = "settle" => e \in object
    BY <1>1, <1>2 DEF ExportInv, RunsInOrder, ExportsComeOut, E!ExportsComeOut, E!To, E!TypeOK
  <2>2. exp \in [Exports -> {"absent", "processing", "ready", "failed"}]
    BY DEF ExportInv, E!TypeOK
  <2>3. \A to \in Steps : E!To(w, to) => run'[w].at = to
    BY WentOn, <1>1
  <2>4. CASE E!RunLooks(w)
    BY <1>2, <1>3, <2>1, <2>2, <2>3, <2>4 DEF Steps
  <2>5. CASE E!RunUploads(w)
    BY <1>2, <2>1, <2>3, <2>5 DEF Steps
  <2>6. CASE E!RunSettles(w)
    BY <1>2, <1>3, <2>1, <2>3, <2>6, SettledOnce DEF Steps
  <2>7. CASE E!RunThrows(w)
    BY <1>2, <2>1, <2>3, <2>7 DEF Steps, E!Caught
  <2>8. CASE E!RunMarksFailed(w)
    BY <1>2, <1>3, <2>1, <2>3, <2>8, SettledOnce DEF Steps
  <2>9. CASE E!CatchThrows(w)
    BY <1>2, <2>1, <2>3, <2>9 DEF Steps
  <2> QED
    BY <2>4, <2>5, <2>6, <2>7, <2>8, <2>9
<1>11. RunsInOrder'
  <2> SUFFICES ASSUME NEW v \in Workers, run'[v] # E!Idle
               PROVE  /\ exp'[run'[v].e] # "absent"
                      /\ run'[v].at = "settle" => run'[v].e \in object'
                      /\ run'[v].at = "done" => exp'[run'[v].e] \in {"ready", "failed"}
    BY DEF RunsInOrder
  <2>1. CASE v = w
    BY <1>2, <1>3, <1>5, <1>10, <2>1
  <2>2. CASE v # w
    BY <1>2, <1>4, <1>5, <1>9, <2>2 DEF ExportInv, RunsInOrder
  <2> QED
    BY <2>1, <2>2
<1>12. ExportsComeOut'
  <2>1. \A d \in Exports : exp'[d] = "ready" => d \in object'
    BY <1>4, <1>5, <1>10 DEF ExportInv, ExportsComeOut, E!ExportsComeOut
  <2>2. ASSUME NEW d \in Exports, exp'[d] = "processing" PROVE E!Attended(d)'
    <3>1. E!Attended(d)
      BY <1>5, <2>2 DEF ExportInv, ExportsComeOut, E!ExportsComeOut
    <3>2. CASE d = e
      BY <1>2, <1>4, <1>10, <2>2, <3>2 DEF E!Attended
    <3>3. CASE d # e
      <4>1. ASSUME NEW v \in Workers, run[v] # E!Idle, run[v].e = d, run[v].at # "throw"
            PROVE  run'[v] # E!Idle /\ run'[v].e = d /\ run'[v].at # "throw"
        BY <1>2, <3>3, <4>1
      <4> QED
        BY <1>4, <3>1, <4>1 DEF E!Attended
    <3> QED
      BY <3>2, <3>3
  <2> QED
    BY <2>1, <2>2 DEF ExportsComeOut, E!ExportsComeOut
<1> QED
  BY <1>6, <1>7, <1>8, <1>11, <1>12 DEF ExportInv


(* What BullMQ makes of the end of a run, or of its silence.                   *)
OffStep(w) == E!RunEnds(w) \/ E!JobStalls(w)
LEMMA ExportOffStep ==
    ASSUME ExportInv, NEW w \in Workers, OffStep(w)
    PROVE  ExportInv'
<1> DEFINE e == run[w].e
<1> USE DEF OffStep, E!RunEnds, E!JobStalls
<1>1. /\ job \in [Exports -> {"none", "waiting", "active", "completed", "failed"}]
      /\ run \in [Workers -> {E!Idle} \cup [at : Steps, e : Exports]]
      /\ \A v \in Workers : run[v] # E!Idle => run[v].e \in Exports
      /\ locks \subseteq Workers
  BY AtHand DEF ExportInv, E!TypeOK, Steps
<1>2. run[w] # E!Idle /\ e \in Exports
  <2>1. w \in locks \/ run[w].at \in Steps
    BY DEF Steps
  <2> QED
    BY <1>1, <2>1, AtHand DEF ExportInv, OneHolder
<1>3. /\ exp' = exp /\ export' = export /\ object' = object /\ late' = late
      /\ locks' = locks \ {w} /\ dropped \subseteq dropped'
  OBVIOUS
<1>4. run' \in {run, [run EXCEPT ![w] = E!Idle]}
  OBVIOUS
<1>5. /\ \A v \in Workers : v # w => run'[v] = run[v]
      /\ run'[w] \in {run[w], E!Idle}
      /\ run' \in [Workers -> {E!Idle} \cup [at : Steps, e : Exports]]
  BY <1>1, <1>4
<1>6. /\ \A d \in Exports : d # e => job'[d] = job[d]
      /\ job' # job => w \in locks
      /\ job' \in [Exports -> {"none", "waiting", "active", "completed", "failed"}]
      /\ job'[e] # "none" \/ job'[e] = job[e]
  BY <1>1, <1>2
<1>7. E!TypeOK'
  <2>1. dropped' \subseteq Exports /\ faults' \in 0..MaxFaults
    BY <1>2, FaultsAssumption DEF ExportInv, E!TypeOK
  <2> QED
    BY <1>3, <1>5, <1>6, <2>1 DEF ExportInv, E!TypeOK, Steps
<1>8. OneHolder'
  <2>1. \A v \in locks \ {w} : job'[run[v].e] = job[run[v].e]
    <3> SUFFICES ASSUME NEW v \in locks \ {w} PROVE job'[run[v].e] = job[run[v].e]
      OBVIOUS
    <3>1. run[v].e \in Exports /\ (w \in locks => run[v].e # e)
      BY <1>1 DEF ExportInv, OneHolder
    <3> QED
      BY <1>6, <3>1
  <2> QED
    BY <1>1, <1>3, <1>5, <2>1 DEF ExportInv, OneHolder
<1>9. JobAfterRow'
  <2>1. w \in locks => job[e] = "active"
    BY DEF ExportInv, OneHolder
  <2> QED
    BY <1>2, <1>3, <1>6, <2>1 DEF ExportInv, JobAfterRow
<1>10. RunsInOrder'
  BY <1>3, <1>5 DEF ExportInv, RunsInOrder
<1>11. ExportsComeOut'
  <2> SUFFICES ASSUME NEW d \in Exports, exp[d] = "processing" PROVE E!Attended(d)'
    BY <1>3 DEF ExportInv, ExportsComeOut, E!ExportsComeOut
  <2>1. E!Attended(d)
    BY DEF ExportInv, ExportsComeOut, E!ExportsComeOut
  <2>2. CASE d # e
    BY <1>3, <1>5, <1>6, <2>1, <2>2 DEF E!Attended
  <2>3. CASE d = e /\ E!RunEnds(w)
    <3>1. run[w].at = "throw"
      BY <1>2, <2>3 DEF ExportInv, RunsInOrder
    <3>2. job[d] # "waiting" \/ job'[d] = job[d]
      BY <1>1, <1>6, <2>3 DEF ExportInv, OneHolder
    <3> QED
      BY <1>3, <1>5, <2>1, <3>1, <3>2 DEF E!Attended
  <2>4. CASE d = e /\ E!JobStalls(w)
    <3>1. job'[d] = "waiting" \/ d \in dropped'
      BY <1>1, <1>2, <2>4
    <3> QED
      BY <3>1 DEF E!Attended
  <2> QED
    BY <2>2, <2>3, <2>4
<1> QED
  BY <1>7, <1>8, <1>9, <1>10, <1>11 DEF ExportInv

(* The inductive invariant always holds: one run at a time holds the job of an *)
(* export, and nothing of it is left undone without a reason.                 *)
THEOREM ExportInvAlways == E!Spec => []ExportInv
<1>1. ExportInv /\ [E!Next]_(E!vars) => ExportInv'
  <2> SUFFICES ASSUME ExportInv, [E!Next]_(E!vars) PROVE ExportInv'
    OBVIOUS
  <2>1. ASSUME NEW e \in Exports, AskStep(e) PROVE ExportInv'
    BY <2>1, ExportAskStep
  <2>2. ASSUME NEW e \in Exports, NEW w \in Workers, E!RunTakes(w, e) PROVE ExportInv'
    BY <2>2, ExportTakeStep
  <2>3. ASSUME NEW w \in Workers, OnStep(w) PROVE ExportInv'
    BY <2>3, ExportOnStep
  <2>4. ASSUME NEW w \in Workers, OffStep(w) PROVE ExportInv'
    BY <2>4, ExportOffStep
  <2>5. CASE UNCHANGED E!vars
    BY <2>5 DEF ExportInv, E!TypeOK, OneHolder, JobAfterRow, RunsInOrder, ExportsComeOut,
                E!ExportsComeOut, E!Attended, E!vars
  <2> QED
    BY <2>1, <2>2, <2>3, <2>4, <2>5 DEF E!Next, AskStep, OnStep, OffStep
<1> QED
  BY <1>1, ExportInit, PTL DEF E!Spec

(* A ready export has its file, and one in processing has who will settle it,  *)
(* unless its request died or its job was lost.                              *)
THEOREM ExportsAreAttended == E!Spec => []ExportsComeOut
<1>1. ExportInv => ExportsComeOut
  BY DEF ExportInv
<1> QED
  BY <1>1, ExportInvAlways, PTL

(* Only the request whose enqueue timed out overrules the outcome of an export. *)
THEOREM ExportsSettleOnce == E!Spec => SettlesOnce
<1> DEFINE Once == \A e \in Exports :
                      exp[e] \in {"ready", "failed"} /\ exp'[e] # exp[e] =>
                          exp'[e] = "failed" /\ export[e] = "mark" /\ export'[e] = "done"
<1>1. ExportInv /\ [E!Next]_(E!vars) => [Once]_(E!vars)
  <2> SUFFICES ASSUME ExportInv, E!Next, NEW d \in Exports,
                      exp[d] \in {"ready", "failed"}, exp'[d] # exp[d]
               PROVE  exp'[d] = "failed" /\ export[d] = "mark" /\ export'[d] = "done"
    OBVIOUS
  <2>1. /\ exp \in [Exports -> {"absent", "processing", "ready", "failed"}]
        /\ export \in [Exports -> {"none", "enqueue", "mark", "done", "dead"}]
    BY DEF ExportInv, E!TypeOK
  <2>2. ASSUME NEW e \in Exports, AskStep(e)
        PROVE  exp'[d] = "failed" /\ export[d] = "mark" /\ export'[d] = "done"
    BY <2>1, <2>2 DEF AskStep, E!Request, E!Enqueue, E!EnqueueThrows, E!LateEnqueue, E!MarkFailed,
                      E!RequestDies
  <2>3. ASSUME NEW w \in Workers, OnStep(w) PROVE FALSE
    BY <2>1, <2>3 DEF OnStep, E!RunLooks, E!RunUploads, E!RunSettles, E!RunThrows,
                      E!RunMarksFailed, E!CatchThrows, E!Settled
  <2>4. ASSUME NEW w \in Workers, OffStep(w) \/ \E e \in Exports : E!RunTakes(w, e) PROVE FALSE
    BY <2>4 DEF OffStep, E!RunEnds, E!JobStalls, E!RunTakes
  <2> QED
    BY <2>2, <2>3, <2>4 DEF E!Next, AskStep, OnStep, OffStep
<1> QED
  BY <1>1, ExportInvAlways, PTL DEF E!Spec, SettlesOnce, E!SettlesOnce

=============================================================================
