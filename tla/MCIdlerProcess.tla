--------------------------- MODULE MCIdlerProcess ---------------------------
(***************************************************************************)
(* Values for model checking the life of the process.                      *)
(***************************************************************************)
EXTENDS IdlerProcess

CONSTANTS a1, a2

TwoApis == {a1, a2}

Oso(a) == [api |-> a, type |-> "OSO"]
Osd(a) == [api |-> a, type |-> "OSD"]

\* No cluster, one to leave out, two in an order, one without a URL, a null.
SomeLists ==
  {<<>>, <<Osd(a1), Oso(a2)>>, <<Oso(a1), Oso(a2)>>, <<Oso(a2), Oso(NoApi)>>,
   <<Oso(a1), [api |-> NoApi, type |-> "null"]>>}
=============================================================================
