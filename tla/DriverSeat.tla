----------------------------- MODULE DriverSeat -----------------------------
(***************************************************************************)
(* What a room promises about its driver seat, whatever happens to         *)
(* connections, agents and instructions: it is empty exactly while the     *)
(* room is, its holder is in the room, and it moves only when its holder   *)
(* hands it on or leaves, or when somebody enters an empty room.           *)
(***************************************************************************)
CONSTANTS Person, Nobody

VARIABLES members, driver

seat == <<members, driver>>

Init == members = {} /\ driver = Nobody

Enter(p) ==
    /\ p \notin members
    /\ members' = members \cup {p}
    /\ driver' = IF members = {} THEN p ELSE driver

Exit(p) ==
    /\ p \in members
    /\ members' = members \ {p}
    /\ \/ driver # p /\ driver' = driver
       \/ driver = p /\ driver' \in members'
       \/ members' = {} /\ driver' = Nobody

HandOn ==
    /\ driver' \in members
    /\ members' = members

Next == HandOn \/ \E p \in Person : Enter(p) \/ Exit(p)

Spec == Init /\ [][Next]_seat
=============================================================================
