------------------------- MODULE MCConditionsClock -------------------------
(***************************************************************************)
(* Values for model checking the conditions on a clock.                    *)
(***************************************************************************)
EXTENDS ConditionsClock

CONSTANTS b1, b2

MCBuildNames == {b1, b2}
MCPhases == {"New", "Running", "Complete", "Cancelled"}
=============================================================================
