------------------------- MODULE MCComponentStatus -------------------------
(***************************************************************************)
(* Instances of ComponentStatus for TLC.                                   *)
(***************************************************************************)
EXTENDS ComponentStatus, TLC

CONSTANTS nav, eyes, link, ros, loop, watchdog, driver

\* Two components share a robot connection, and one of them uses an executor first.
TwoComponents == <<nav, eyes>>
UsedBy == nav :> <<ros, link>> @@ eyes :> <<link>>

\* The threads off the loop are alike.
OtherThreads == Permutations({watchdog, driver})
=============================================================================
