---------------------------- MODULE MCJoinRetry -----------------------------
(* An instance of JoinRetry for TLC.                                         *)
EXTENDS JoinRetry, TLC

CONSTANTS p1, p2, r1, r2, n1, n2

\* Both players meet in r1; p1 may be matched into r2.
TwoRooms == (r1 :> {p1, p2} @@ r2 :> {p1})

\* The second version of the game has another room.
Growing == <<{n1}, {n1, n2}>>

\* p1 joins with the hash of the room, p2 with a name.
HashAndName == (p1 :> {Hash} @@ p2 :> {n2})

Twice == (p1 :> 2 @@ p2 :> 1)
=============================================================================
