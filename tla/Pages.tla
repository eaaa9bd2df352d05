-------------------------------- MODULE Pages --------------------------------
(* shared/pagination: pages by the id of the last row shown.  Ids are numbers,  *)
(* in the order in which UUIDv7s sort.                                       *)
EXTENDS Integers, Sequences, FiniteSets

NoCursor == 0

(* lt(id, cursor), or gt in a list that ascends; a cursor that is no UUID is none. *)
BeyondOrAt(S, cursor, ascending) ==       \* mutant: lte, gte
    {i \in S : cursor = NoCursor \/ IF ascending THEN i >= cursor ELSE i <= cursor}
Beyond(S, cursor, ascending) ==
    {i \in S : cursor = NoCursor \/ IF ascending THEN i > cursor ELSE i < cursor}

(* ORDER BY id LIMIT limit, descending or ascending: the nth row has n - 1       *)
(* before it.                                                                *)
Comes(i, j, ascending) == IF ascending THEN i < j ELSE i > j
Nth(S, n, ascending) ==
    CHOOSE i \in S : Cardinality({j \in S : Comes(j, i, ascending)}) = n - 1
Select(S, limit, ascending) ==
    [n \in 1..(IF limit < Cardinality(S) THEN limit ELSE Cardinality(S)) |-> Nth(S, n, ascending)]

(* One row more than asked for was fetched: it tells that a page follows, whose *)
(* cursor is the last row kept.                                              *)
BuildPage(rows, limit) ==
    IF Len(rows) > limit THEN [data |-> SubSeq(rows, 1, limit), nextCursor |-> rows[limit]]
                         ELSE [data |-> rows, nextCursor |-> NoCursor]

PageOf(S, cursor, limit, ascending) ==
    BuildPage(Select(Beyond(S, cursor, ascending), limit + 1, ascending), limit)
==============================================================================
