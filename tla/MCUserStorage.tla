---------------------------- MODULE MCUserStorage ----------------------------
(* Instances of UserStorage for TLC.                                          *)
EXTENDS UserStorage, TLC

CONSTANTS n1, n2, n3, s1, s2, s3, s4, late

\* Every session has a logic node of its own; n3 supervises all of them.
Alone      == <<n1>>
MovesOn    == <<n1, n2, n3>>
Supervised == [a \in Sessions |-> {n3}]
Unattended == [a \in Sessions |-> {}]

\* The center lets the first logic node go on reading and writing; or adds nothing.
LateGrant  == (late :> {n1})
NoGrant    == [g \in {} |-> {}]

\* The save before has reached all the stores.
AllHave    == [s \in Stores |-> 0]

\* Bound: nothing is saved.
SpecNoSave == Init /\ [][Next /\ (\A a \in Sessions : phase[a] # "saving")']_vars

\* The sessions come in turn; bound: the stores have heard of a session, and know what
\* the chain has of the player, when the next one but the last is entered.
Informed(a) == \A s \in Stores : <<a, s>> \notin notices \cup ethAsked
HeardInTurn ==
  \A a, b \in Sessions : a < b /\ b < NSessions /\ Entered(b) => Informed(a)
SpecInTurn == Init /\ [][Next /\ (InTurn /\ HeardInTurn)']_vars

Same == Permutations(Stores \ Busy)
=============================================================================
