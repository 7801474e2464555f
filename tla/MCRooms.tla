------------------------------- MODULE MCRooms -------------------------------
(* The passwords of a room, a wrong one, and the blank login, for TLC. *)
EXTENDS Rooms

MCTyped == {"member pw", "admin pw", "wrong pw"}
MCOne == {"member pw"}
MCAny == MCTyped \cup {Blank}

=============================================================================
