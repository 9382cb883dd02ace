--------------------------- MODULE MCRoomLifecycle ---------------------------
(* Instances of RoomLifecycle for TLC.                                        *)
EXTENDS RoomLifecycle, TLC

CONSTANTS p1, p2, r1, s1, s2, s3

\* Two players with a socket each, in one room; p1 may ask to join twice.
PairOwner  == (s1 :> p1 @@ s2 :> p2)
PairJoins  == <<s1, s2, s1>>

\* The second time p1 joins from a second connection.
AgainOwner == (s1 :> p1 @@ s2 :> p2 @@ s3 :> p1)
AgainJoins == <<s1, s2, s3>>

\* A broadcast, and then a message for p1 alone.
AgainSays == <<[to |-> << >>, live |-> TRUE], [to |-> <<p1>>, live |-> FALSE]>>
Silent    == << >>

PairExpect == (r1 :> {p1, p2})
=============================================================================
