------------------------------- MODULE Lists -------------------------------
(***************************************************************************)
(* The Get and List calls of the services (internal/service/*.go): which   *)
(* rows a page is made of, and what is answered for a row that is missing. *)
(* Every List call is one statement, ORDER BY created_at DESC with LIMIT   *)
(* and OFFSET, and every Get one SELECT by id; soft deleted rows are left  *)
(* out of both.  Rows are numbered by created_at; two rows of one time     *)
(* stamp would have no order at all, and are not modelled.                 *)
(***************************************************************************)
EXTENDS Integers, FiniteSets

CONSTANTS
    Default,       \* the size a List call takes in place of one it refuses: 10
    Largest        \* the largest size it accepts: 100

PageSizes == Default \in Nat \ {0} /\ Largest \in Nat /\ Default <= Largest

-----------------------------------------------------------------------------
(* The services.  release.go compares the error of its SELECT with one that *)
(* gorm does not return.                                                    *)

\* The code Get answers with for a row that is not there.
GetTarget  == "NotFound"
GetPayload == "NotFound"
GetRelease == "Internal"
GetAccount == "NotFound"
GetSession == "NotFound"
GetUser    == "NotFound"
GetSystem  == "NotFound"
GetTenant  == "NotFound"

\* capped: List refuses sizes above Largest; deletes: some call deletes rows.
TargetList  == [capped |-> TRUE,  deletes |-> TRUE,  missing |-> GetTarget]
PayloadList == [capped |-> TRUE,  deletes |-> TRUE,  missing |-> GetPayload]
ReleaseList == [capped |-> TRUE,  deletes |-> FALSE, missing |-> GetRelease]
AccountList == [capped |-> TRUE,  deletes |-> FALSE, missing |-> GetAccount]
SessionList == [capped |-> TRUE,  deletes |-> FALSE, missing |-> GetSession]
UserList    == [capped |-> TRUE,  deletes |-> TRUE,  missing |-> GetUser]
SystemList  == [capped |-> TRUE,  deletes |-> TRUE,  missing |-> GetSystem]
TenantList  == [capped |-> FALSE, deletes |-> TRUE,  missing |-> GetTenant]

ListOf == [target |-> TargetList, payload |-> PayloadList, release |-> ReleaseList,
           account |-> AccountList, session |-> SessionList, user |-> UserList,
           system |-> SystemList, tenant |-> TenantList]

SizeOf(k, size) ==
    IF size < 1 \/ (ListOf[k].capped /\ size > Largest) THEN Default ELSE size

PageOf(page) == IF page < 1 THEN 1 ELSE page

\* ORDER BY created_at DESC: the place of row n is the number of newer rows.
Place(n, S) == Cardinality({m \in S : m > n})

\* LIMIT and OFFSET.
Slice(S, offset, limit) == {n \in S : Place(n, S) \in offset..(offset + limit - 1)}

\* Variant: the pages are counted from 0.
PageFromZero(S, k, page, size) ==
    Slice(S, PageOf(page) * SizeOf(k, size), SizeOf(k, size))

\* Which of the rows S a List call answers with.
Page(S, k, page, size) ==
    Slice(S, (PageOf(page) - 1) * SizeOf(k, size), SizeOf(k, size))

=============================================================================
