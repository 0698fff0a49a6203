------------------------------ MODULE Pagination ------------------------------
(***************************************************************************)
(* Pages of lists (domain/paginate.go, DecodeQueryParams of                *)
(* handler/JSONHelper.go) over 32-bit integers.  A list is a sequence; the *)
(* database refuses a negative offset.                                     *)
(***************************************************************************)
EXTENDS Errors, Integers, Sequences, FiniteSets

CONSTANTS
    Half,           \* 2^31 in the code: int32 is -Half .. Half - 1
    DefaultLimit,   \* 20 in the code
    MaxLimit        \* 100 in the code

ASSUME PaginationAssumption ==
    /\ Half \in Nat /\ DefaultLimit \in Nat /\ MaxLimit \in Nat
    /\ 1 <= DefaultLimit /\ DefaultLimit <= MaxLimit /\ MaxLimit < Half - 1

Int32 == -Half .. Half - 1

(* What int32 arithmetic makes of a number. *)
Wrap(n) == ((n + Half) % (2 * Half)) - Half

(* Mutation: pages are counted from 0. *)
ValidatePaginationParamsFromZero(page, limit) ==
    LET p == IF page < 1 THEN 1 ELSE page
        l == IF limit < 1 \/ limit > MaxLimit THEN DefaultLimit ELSE limit
    IN  [offset |-> Wrap(p * l), limit |-> l]

(* The offset and the limit of a page; a missing parameter is 0. *)
ValidatePaginationParams(page, limit) ==
    LET p == IF page < 1 THEN 1 ELSE page
        l == IF limit < 1 \/ limit > MaxLimit THEN DefaultLimit ELSE limit
    IN  [offset |-> Wrap((p - 1) * l), limit |-> l]

(* A number in a path is read as 64 bits and cut to 32, without an error.  *)
(* What is no number stands for a number that does not fit 64 bits.        *)
PathInt32(n) ==
    IF n \in -2 * Half * Half .. 2 * Half * Half - 1 THEN [err |-> Ok, id |-> Wrap(n)]
    ELSE [err |-> "ErrInvalidParams", id |-> 0]

(* Parameters that are no 32-bit integers are refused. *)
DecodeQueryParams(page, limit) == {page, limit} \subseteq Int32

(* ORDER BY of a query: the elements of a set, the one of the lowest rank  *)
(* first.  Written without recursion, so that it can be reasoned about.    *)
InOrder(S, rank) ==
    [k \in 1..Cardinality(S) |->
       CHOOSE x \in S : Cardinality({y \in S : rank[y] <= rank[x]}) = k]

(* The elements of a list that are in a set. *)
Those(list, S) ==
    LET at == InOrder({i \in DOMAIN list : list[i] \in S}, [i \in DOMAIN list |-> i])
    IN  [k \in DOMAIN at |-> list[at[k]]]

(* LIMIT and OFFSET of a query. *)
Limited(list, window) ==
    SubSeq(list, window.offset + 1,
           IF window.offset + window.limit < Len(list)
             THEN window.offset + window.limit ELSE Len(list))

(* What a service makes of a list: one page of it, or ErrDB. *)
Paged(list, page, limit) ==
    LET window == ValidatePaginationParams(page, limit)
    IN  IF window.offset < 0 THEN [err |-> "ErrDB", items |-> <<>>]
        ELSE [err |-> Ok, items |-> Limited(list, window)]

(* What a handler makes of the parameters and of the service's result. *)
Reply(page, limit, result) ==
    IF ~DecodeQueryParams(page, limit) THEN [code |-> 400, items |-> <<>>]
    ELSE IF result.err # Ok THEN [code |-> MapErrorToHTTP(result.err), items |-> <<>>]
    ELSE [code |-> 200, items |-> result.items]

-------------------------------------------------------------------------------
(* An item is shown on exactly the page where counting by limit puts it:   *)
(* none is missing or shown twice as a client turns the pages; a page      *)
(* below the first is the first.  The offset of a page too far to count to *)
(* in 32 bits wraps to an error or to another page, which at least shows   *)
(* nothing but items of the list.                                          *)
PageIsRight(list, page, limit, answer) ==
    LET p == IF page < 1 THEN 1 ELSE page
        l == ValidatePaginationParams(page, limit).limit
    IN  page \in Int32 =>
          IF (p - 1) * l < Half
          THEN /\ answer.code = 200
               /\ \A i \in 1..Len(list) :
                     (i - 1) \div l + 1 = p
                       <=> \E j \in 1..Len(answer.items) : answer.items[j] = list[i]
          ELSE /\ answer.code \in {200, 500}
               /\ \A j \in 1..Len(answer.items) :
                     \E i \in 1..Len(list) : answer.items[j] = list[i]

===============================================================================
