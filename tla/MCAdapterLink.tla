--------------------------- MODULE MCAdapterLink ---------------------------
(***************************************************************************)
(* Instances of AdapterLink for TLC.                                       *)
(***************************************************************************)
EXTENDS AdapterLink, TLC

CONSTANTS robot, lower

\* A robot, and a lower gateway below which an engine of the same id may appear.
TwoProfiles == robot :> {{"r1"}} @@ lower :> {{"g2"}, {"g2", "r1"}}
=============================================================================
