----------------------------- MODULE MCIdlerAPI -----------------------------
(***************************************************************************)
(* Values for model checking the API.                                      *)
(***************************************************************************)
EXTENDS IdlerAPI, TLC

CONSTANTS n1, n2, r1, r2

TwoNamespaces == {n1, n2}
OneWatched == {n1}
TwoRequests == {r1, r2}
Alike == Permutations(TwoRequests)

On(op, n) == [op |-> op, ns |-> n]
AllCalls == {On("idle", n1), On("unidle", n1), On("unidle", n2),
             On("isidle", n1), On("status", n1), On("reset", n1)}

\* Two users at once of whom one is named twice, and that one alone.
SomeStatuses == {[disable |-> <<n1, n2>>, enable |-> <<n1>>],
                 [disable |-> <<>>, enable |-> <<n1>>]}
=============================================================================
