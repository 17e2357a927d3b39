---------------------------- MODULE MCFirmwareUpdate ---------------------------
(***************************************************************************)
(* Small instances of FirmwareUpdate: three or two invocations of the      *)
(* command line, of which any may be an update, a verification or a        *)
(* restore.                                                                *)
(***************************************************************************)
EXTENDS FirmwareUpdate, TLC

CONSTANTS c1, c2, c3

MCTwo   == {c1, c2}
MCThree == {c1, c2, c3}

Symmetry == Permutations(Runs)
================================================================================
