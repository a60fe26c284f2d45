---------------------------- MODULE RunContract ----------------------------
(***************************************************************************)
(* What a source of components promises of run                             *)
(* (engine/src/openrois/engine/contract.py): a call ends once, and a call  *)
(* the engine cancels comes to an end as a cancelled call, never with a    *)
(* status.                                                                 *)
(***************************************************************************)
CONSTANT Cmds

VARIABLE run   \* each call of run: "none", "running", "cancelling", "ended", "aborted"

Init == run = [c \in Cmds |-> "none"]

\* run is called.  It may end without waiting.
Call(c) ==
    /\ run[c] = "none"
    /\ \E r \in {"running", "ended"} : run' = [run EXCEPT ![c] = r]

\* The engine cancels the call.
Cancel(c) == run[c] = "running" /\ run' = [run EXCEPT ![c] = "cancelling"]

\* The call returns how the command ended.
End(c) == run[c] = "running" /\ run' = [run EXCEPT ![c] = "ended"]

\* The cancelled call ends.
EndCancelled(c) == run[c] = "cancelling" /\ run' = [run EXCEPT ![c] = "aborted"]

Next == \E c \in Cmds : Call(c) \/ Cancel(c) \/ End(c) \/ EndCancelled(c)

\* Only what was cancelled must end.
Spec == Init /\ [][Next]_run
FairSpec == Spec /\ \A c \in Cmds : WF_run(EndCancelled(c))
=============================================================================
