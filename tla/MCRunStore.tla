----------------------------- MODULE MCRunStore -----------------------------
(* Model values for RunStore: three runs, two of them of one bot.          *)
EXTENDS RunStore, TLC

CONSTANTS r1, r2, r3, b1, b2

TwoBots == [r \in {r1, r2, r3} |-> IF r = r3 THEN b2 ELSE b1]

SameBot == Permutations({r1, r2})
=============================================================================
