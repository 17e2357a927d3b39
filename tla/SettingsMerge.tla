----------------------------- MODULE SettingsMerge -----------------------------
(***************************************************************************)
(* The profile a run writes to a target (backend/settings_merge.py).       *)
(* Settings are functions from keys to values; a device's schema is the    *)
(* domain of its settings.                                                 *)
(***************************************************************************)
CONSTANT TargetLocalKeys  \* TARGET_LOCAL_KEYS: never cloned from the source

Portable(settings) == DOMAIN settings \ TargetLocalKeys

\* No "missing_profile_keys".
Compatible(control, target) == Portable(control) \subseteq DOMAIN target

\* Mutant: everything the source has is cloned.
BulkUpdateSettings_CloneAll(control, target) ==
    [k \in DOMAIN target \cup DOMAIN control |->
        IF k \in DOMAIN control THEN control[k] ELSE target[k]]

\* get_bulk_update_settings: start from the target, overlay the source's profile.
BulkUpdateSettings(control, target) ==
    [k \in DOMAIN target \cup Portable(control) |->
        IF k \in Portable(control) THEN control[k] ELSE target[k]]

\* The target-local part of some settings
LocalPart(settings) == [k \in DOMAIN settings \cap TargetLocalKeys |-> settings[k]]
================================================================================
