----------------------------- MODULE MCRunEngine -----------------------------
(* RunEngine with one or two runs of one bot.                                *)
EXTENDS RunEngine

CONSTANTS r1, r2, b1

MCBotOf == [r \in Runs |-> b1]
==============================================================================
