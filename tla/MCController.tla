---------------------------- MODULE MCController ----------------------------
(***************************************************************************)
(* Values for model checking the controller.                               *)
(***************************************************************************)
EXTENDS Controller

CONSTANTS n1, b1, b2

NoNamespace == {}
OneNamespace == {n1}
OneBuild == {b1}
TwoBuilds == {b1, b2}

\* Deployment events of a Jenkins that is never available, that has just become
\* so, and of one whose event does not say since when.
NoAge == {}
JustNow == {0}
Sometimes == {0, Never}

\* A build is created, runs, and completes or is cancelled.
MCLifecycle == {<<"absent", "New">>, <<"New", "Running">>,
                <<"Running", "Complete">>, <<"Running", "Cancelled">>}
NewOnly == {<<"absent", "New">>}
ShortLifecycle == {<<"absent", "New">>, <<"New", "Complete">>}

\* Two events of a namespace never overlap.  What is said of the namespaces
\* for which none did needs no other steps, as overlapped only grows.
NoOverlap == overlapped' = {}
=============================================================================
