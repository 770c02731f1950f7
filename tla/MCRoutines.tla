------------------------------ MODULE MCRoutines -----------------------------
(* Two routines and a scheduler that submits one at a time.                  *)
EXTENDS Routines
==============================================================================
