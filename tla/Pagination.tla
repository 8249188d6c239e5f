----------------------------- MODULE Pagination -----------------------------
(***************************************************************************)
(* Pages of a list: from the query string of a request to the rows and the *)
(* numbers of the answer.  PaginationRequest, the conversions in the       *)
(* handlers, LIMIT and OFFSET, NewPaginatedResponse.                       *)
(*                                                                         *)
(* Go's int has 64 bits and the parameters of the queries have 32.  An     *)
(* overflow of the product is lost in the conversion, since 32 bits of it  *)
(* depend only on 32 bits of the factors; so only the narrow width counts, *)
(* and it is a parameter to keep numbers small.                            *)
(***************************************************************************)
EXTENDS Integers, Sequences

CONSTANTS
    Half,           \* Limit and Offset are from -Half to Half - 1 (2^31)
    DefaultSize,    \* 10
    MaxSize,        \* 5000
    FallbackSize,   \* 100
    NoNumber,       \* a query parameter that is missing or no number
    Error           \* the answer to a query that MySQL refuses

ASSUME PaginationAssumption ==
    /\ {Half, DefaultSize, MaxSize, FallbackSize} \subseteq Nat \ {0}
    /\ DefaultSize <= MaxSize /\ FallbackSize <= MaxSize
    /\ MaxSize < Half
    /\ Error \notin Seq(Int)

NewPaginationRequest == [page |-> 1, size |-> DefaultSize]

ValidateSize(p) ==   (* Mutant: any page number *)
    [p EXCEPT !.size = IF @ <= 0 THEN DefaultSize ELSE IF @ > MaxSize THEN FallbackSize ELSE @]
Validate(p) ==
    [page |-> IF p.page <= 0 THEN 1 ELSE p.page,
     size |-> IF p.size <= 0 THEN DefaultSize ELSE IF p.size > MaxSize THEN FallbackSize ELSE p.size]

(* What is no number leaves the default in place.                          *)
ParsePaginationFromQuery(page, size) ==
    Validate([page |-> IF page = NoNumber THEN NewPaginationRequest.page ELSE page,
              size |-> IF size = NoNumber THEN NewPaginationRequest.size ELSE size])

OffsetFromZero(p) == p.page * p.size   (* Mutant: pages counted from 0 *)
GetOffset(p) == (p.page - 1) * p.size
GetLimit(p)  == p.size

Int32(n) == ((n + Half) % (2 * Half)) - Half

(* MySQL refuses a negative limit or offset.                               *)
Select(rows, limit, offset) ==
    IF limit < 0 \/ offset < 0 THEN Error
    ELSE SubSeq(rows, offset + 1, IF offset + limit < Len(rows) THEN offset + limit ELSE Len(rows))

PageOf(rows, p) == Select(rows, Int32(GetLimit(p)), Int32(GetOffset(p)))

TotalPagesFloor(total, size) == total \div size   (* Mutant: no page for a remainder *)
TotalPages(total, size) == IF total % size > 0 THEN (total \div size) + 1 ELSE total \div size
=============================================================================
