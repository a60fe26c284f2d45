-------------------------- MODULE MCLocalCommands --------------------------
(***************************************************************************)
(* Instances of LocalCommands for TLC.                                     *)
(***************************************************************************)
EXTENDS LocalCommands, TLC

CONSTANTS s1, s2, stop, suspend, suspend2, resume, other, none

\* A start with the commands of a suspension.
SuspendKind ==
    s1 :> "start" @@ stop :> "stop" @@ suspend :> "suspend" @@ suspend2 :> "suspend"
    @@ resume :> "resume" @@ other :> "other"

\* Two starts and a stop.
LiveKind == s1 :> "start" @@ s2 :> "start" @@ stop :> "stop"
=============================================================================
