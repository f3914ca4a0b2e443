---------------------------- MODULE MCUserIdler ----------------------------
(***************************************************************************)
(* Values for model checking a user idler.                                 *)
(***************************************************************************)
EXTENDS UserIdler

CONSTANTS b1, b2

MCBuildNames == {b1, b2}

TheBuild(name, phase, late) == [name |-> name, phase |-> phase, age |-> 0, late |-> late]

Running   == [NewUser EXCEPT !.active = TheBuild(b1, "Running", FALSE)]
Aborted   == [NewUser EXCEPT !.done = TheBuild(b1, "Cancelled", FALSE)]
Overdue   == [NewUser EXCEPT !.active = TheBuild(b2, "New", TRUE),
                             !.done = TheBuild(b1, "Failed", FALSE)]

\* One that keeps Jenkins up until it has run for too long, and one that lets
\* it be idled at once.
SomeUpdates == {Running, Overdue}

\* A build that runs, and one that was cancelled.
FewUpdates == {Running, Aborted}
=============================================================================
