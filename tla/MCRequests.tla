----------------------------- MODULE MCRequests -----------------------------
(***************************************************************************)
(* A client and a parent engine with requests on one component.            *)
(***************************************************************************)
EXTENDS Requests, TLC

CONSTANTS client, parent

\* Sets of both sessions on the same parameter, one that may name a read-only parameter, and
\* a request of any other kind.
RequestSessions == <<client, parent, client>>
RequestKinds == <<{"set"}, {"set"}, Kinds>>
RequestGives == <<{"p", "q"}, {"p"}, {"p", "fixed"}>>
RequestAbout == <<1, 1, 1>>
=============================================================================
