-------------------------------- MODULE MCGate --------------------------------
(* The gate's requests, and what they find behind it, one beside the other: in a  *)
(* behaviour one of the two moves and the other rests.                           *)
EXTENDS GateRequests, FrontDoor

VARIABLE moving

MCInit ==
    \/ /\ moving = "requests"
       /\ Init
       /\ FrontDoorInit
       /\ folder.sub[Entry] = "none"
    \/ /\ moving = "door"
       /\ FrontDoorInit
       /\ app = [visibility |-> "private", paused |-> FALSE, relay |-> "off"]
       /\ status = "absent"
       /\ peer = [address |-> "loopback", relayed |-> FALSE]
       /\ household = FALSE /\ own = FALSE

MCNext ==
    /\ moving' = moving
    /\ \/ moving = "requests" /\ Next /\ UNCHANGED doorVars
       \/ moving = "door" /\ FrontDoorNext /\ UNCHANGED vars

MCSpec == MCInit /\ [][MCNext]_<<moving, vars, doorVars>>
=============================================================================
