----------------------------- MODULE MCProfileRun ------------------------------
(***************************************************************************)
(* Small instances of ProfileRun: settings have a target-local name, a     *)
(* portable profile and, on one device, a portable key the others lack.    *)
(***************************************************************************)
EXTENDS ProfileRun, TLC

CONSTANTS d1, d2, p1, p2

MCTwo    == {d1, d2}
MCOne    == {p1}
MCPushes == {p1, p2}
MCLocalKeys == {"name"}

Names    == {"n1", "n2", "renamed"}
Profiles == {"a", "b"}

MCSettings ==
    [{"name", "profile"} -> Names \cup Profiles] \cup
    [{"name", "profile", "overlay"} -> Names \cup Profiles]

Plain(name, profile) == "name" :> name @@ "profile" :> profile

MCInitialTwo == d1 :> Plain("n1", "a") @@ d2 :> Plain("n2", "b")

\* d2 has a richer schema: it can be a target of d1, never d1's source.
MCInitialRich == [MCInitialTwo EXCEPT ![d2] = @ @@ "overlay" :> "b"]

MCLocallyChanged == [s \in MCSettings |-> [s EXCEPT !["name"] = "renamed"]]

PushSymmetry == Permutations(MCPushes)
================================================================================
