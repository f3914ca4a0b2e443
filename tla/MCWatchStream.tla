--------------------------- MODULE MCWatchStream ----------------------------
(***************************************************************************)
(* Values for model checking a watch loop.                                 *)
(***************************************************************************)
EXTENDS WatchStream

CONSTANTS o1, o2, o3

AllObjects == {o1, o2, o3}

\* The third is a build of another type, or in a namespace without Jenkins.
TwoWanted == {o1, o2}
=============================================================================
