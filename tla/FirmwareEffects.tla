---------------------------- MODULE FirmwareEffects ----------------------------
(***************************************************************************)
(* What the firmware commands promise about one device and one artifact:   *)
(* each effect on the device (the upload, the install, the repair of the   *)
(* recording flag) is submitted at most once, whatever invocations, errors *)
(* and crashes there are, an install never precedes the upload, and no     *)
(* effect is submitted before its announcement is durable.                 *)
(***************************************************************************)
EXTENDS Sequences

VARIABLES announced,  \* effects whose "-starting" event is durable
          sent        \* effects submitted to the device, in order

Effects == {"upload", "install", "repair"}

Sent(effect) == \E k \in DOMAIN sent : sent[k] = effect

Init == announced = {} /\ sent = <<>>

Announce(effect) ==
    /\ effect \notin announced
    /\ announced' = announced \cup {effect}
    /\ UNCHANGED sent

Send(effect) ==
    /\ effect \in announced
    /\ ~Sent(effect)
    /\ effect = "install" => Sent("upload")
    /\ sent' = Append(sent, effect)
    /\ UNCHANGED announced

Next == \E effect \in Effects : Announce(effect) \/ Send(effect)

Spec == Init /\ [][Next]_<<announced, sent>>
================================================================================
