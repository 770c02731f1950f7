------------------------------- MODULE MCGroups -------------------------------
(***************************************************************************)
(* Groups on a small instance: a room of two, in which two loops may be    *)
(* started, two messages posted and one stop or deletion be under way.     *)
(***************************************************************************)
EXTENDS Groups

CONSTANTS ann, ben

TwoMembers == <<ann, ben>>
===============================================================================
