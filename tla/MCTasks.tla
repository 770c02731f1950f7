------------------------------- MODULE MCTasks --------------------------------
(* Tasks with few runs and edits: the constants are in the configurations.   *)
EXTENDS Tasks
===============================================================================
