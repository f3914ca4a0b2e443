------------------------------- MODULE Tenant -------------------------------
(***************************************************************************)
(* What the tenant service may answer, and what is made of its answers.    *)
(* The service itself is external.  The status of an answer is not looked  *)
(* at: the body of an error that is JSON is an answer like any other,      *)
(* without a tenant in it.                                                 *)
(***************************************************************************)
EXTENDS Integers

\* read: there is an answer and it decodes; errors: it lists some; total: the
\* number of tenants it claims, up to two; data: it holds a tenant; listed:
\* the namespace asked for is among those of the tenant; exhausted: the
\* cluster of that namespace is full.
InfoLists == [read : BOOLEAN, errors : BOOLEAN, total : 0 .. 2, data : BOOLEAN,
              listed : BOOLEAN, exhausted : BOOLEAN]

\* HasReachedMaxCapacity: "unknown" is its error.
Verdict(info) ==
  IF ~info.read \/ info.errors \/ ~info.data \/ ~info.listed THEN "unknown"
  ELSE IF info.exhausted THEN "full" ELSE "room"

\* What HasReachedMaxCapacity may say of a cluster that is or is not full.
HasReachedMaxCapacity ==
  [full \in BOOLEAN |-> {Verdict(info) : info \in {i \in InfoLists : i.exhausted = full}}]

\* What createIfNotExist makes of an answer: errors in it are ignored.
Registration(info) ==
  CASE ~info.read \/ info.total > 1 -> "failed"
    [] info.read /\ info.total <= 1 /\ ~info.data -> "unknown"
    [] OTHER                        -> "found"

\* What it may make of one about a namespace with or without a tenant.
GetTenantInfoByNamespace ==
  [known \in BOOLEAN |-> {Registration(info) : info \in {i \in InfoLists : i.data => known}}]
=============================================================================
