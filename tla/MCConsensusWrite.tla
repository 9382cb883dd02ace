-------------------------- MODULE MCConsensusWrite --------------------------
(* Instances of ConsensusWrite for TLC.                                    *)
EXTENDS ConsensusWrite, TLC

CONSTANTS u1, u2, r1, r2, a1, a2, a3, a4, s1, s2, s3, s4, d0, d1

\* All the supervisors are appointed with every room.
AllRoomSups == [r \in Rooms |-> Sups]

Interchangeable == Permutations(Sups) \cup Permutations(Stores)
=============================================================================
