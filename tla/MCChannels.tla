------------------------------ MODULE MCChannels ------------------------------
(* Channels with one webhook that may be repeated and a few updates.         *)
EXTENDS Channels

CONSTANTS h1, p1, p2
===============================================================================
