----------------------------- MODULE MCOperatorPage ----------------------------
(***************************************************************************)
(* Three devices: b and c take the profile of a; either may be frozen as a *)
(* source, and blocks all others.  Scans find all of them, or only a.      *)
(***************************************************************************)
EXTENDS OperatorPage, TLC

CONSTANTS a, b, c

MCDevices == {a, b, c}

MCCompatibleWith == a :> {b, c} @@ b :> {} @@ c :> {}

MCScanResults == {{a, b, c}, {a}}

Symmetry == Permutations({b, c})
================================================================================
