------------------------------ MODULE MCEngine ------------------------------
(***************************************************************************)
(* The constants of the TLC runs of Engine.                                *)
(***************************************************************************)
EXTENDS Engine, TLC

CONSTANTS s1, s2, here, k1, k2, nav, mic

Symmetry == Permutations(Sessions)

Cmd(e, i, b, p, r) == [exec |-> e, item |-> i, branch |-> b, pos |-> p, ref |-> r]

\* One execute: a command on the actuator, then two concurrent branches, the first of
\* which has two commands.
SequencePlan ==
    <<Cmd(1, 1, 1, 1, nav), Cmd(1, 2, 1, 1, mic), Cmd(1, 2, 1, 2, nav), Cmd(1, 2, 2, 1, mic)>>

\* Two executes of one command each, on different components.
BindPlan == <<Cmd(1, 1, 1, 1, nav), Cmd(2, 1, 1, 1, mic)>>

OneCommand == <<Cmd(1, 1, 1, 1, nav)>>

\* Where the components are: in this process, one of them on a child engine, on two.
AllLocal == [r \in Refs |-> here]
MicOnChild == (nav :> here) @@ (mic :> k1)
TwoChildren == (nav :> k1) @@ (mic :> k2)

\* The profiles of the child engines: none, one that stays as it is, one whose component comes and
\* goes beside one that stays.
NoProfiles == <<>>
MicStays == k1 :> {{mic}}
NavComesAndGoes == k1 :> {{nav}, {}} @@ k2 :> {{mic}}

\* How often the children connect.
Never == <<>>
Once == k1 :> 1
TwiceAndOnce == k1 :> 2 @@ k2 :> 1

\* The event type and condition, and the component, of each subscribe request.
NoSubs == <<>>
TwoKeys == <<1, 2>>
TwoRefs == <<nav, mic>>
=============================================================================
