--------------------------- MODULE MCChildEngine ---------------------------
(***************************************************************************)
(* Instances of ChildEngine for TLC.                                       *)
(***************************************************************************)
EXTENDS ChildEngine

CONSTANTS a, b, p, q, e

\* Two subscribes, a command with an error of the child, a parameter change with a query.
Each == {{<<"sub", a>>, <<"sub", b>>}, {<<"run", 1>>, <<"detail", e>>}, 
         {<<"set", p>>, <<"read", q>>}}
=============================================================================
