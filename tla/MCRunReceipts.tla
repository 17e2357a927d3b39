----------------------------- MODULE MCRunReceipts -----------------------------
(***************************************************************************)
(* Small instances of RunReceipts.  Sizes are scaled down, keeping the     *)
(* relations of the code's JSON: an outcome text may be longer than the    *)
(* intent's, a verification is longer than both, and what a journal event  *)
(* adds to its summary outweighs a reservation file.                       *)
(***************************************************************************)
EXTENDS RunReceipts, TLC

CONSTANTS r1, r2, t1, t2

MCIds     == {r1, r2}
MCTargets == {t1, t2}

MCTargetBytes ==
    [s \in TargetStates |->
        IF s \in {"unknown", "verified", "mismatch", "unavailable"} THEN 3 ELSE 2]

Symmetry == Permutations(MCIds) \cup Permutations(MCTargets)
================================================================================
