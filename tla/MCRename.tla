-------------------------------- MODULE MCRename -------------------------------
(***************************************************************************)
(* Small instances of Rename: two journaled units that leave the factory   *)
(* with the same settings, and a name for either number.  The recording    *)
(* names are one unit's already.                                           *)
(***************************************************************************)
EXTENDS Rename, TLC

CONSTANTS i1, i2, u1, u2, p1, p2

MCIps   == {i1, i2}
MCUnits == {u1, u2}
MCPlans == {p1, p2}

MCNamesFor == u1 :> {"cam-01"} @@ u2 :> {"cam-02"}
MCAt       == i1 :> u1 @@ i2 :> u2
MCSettings == [u \in MCUnits |-> [name |-> "aio", rec |-> "cam-01", rest |-> "r1"]]

\* The names a rename replaces come back, or something else changes as well.
MCElsewhere == {[name |-> "aio", rec |-> "cam-01", rest |-> r] : r \in {"r1", "r2"}}
================================================================================
