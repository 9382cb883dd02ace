------------------------------ MODULE RoomSave ------------------------------
(***************************************************************************)
(* What the saving of rooms promises, without saying how: no supervisors,  *)
(* signatures, keys, timers or messages.  A room asks for the datum of     *)
(* each of its players to be saved, once; a write that was not answered    *)
(* yet may be sent to the storage nodes, which put the datum that was      *)
(* asked for; every write ends once, "ok" only when a quorum of them did;  *)
(* and the room is reported over when all its writes have ended, one of    *)
(* them well.                                                              *)
(* ConsensusWrite implements it.                                           *)
(***************************************************************************)
EXTENDS Naturals

CONSTANTS
  Users,      \* the players
  Rooms,      \* the rooms
  Stores,     \* the storage nodes
  Quorums,    \* sets of storage nodes that make a write durable
  Data,       \* the values a player's data may take
  InitData,   \* the value they have at the start
  MaxList     \* bound: the longest list of players a room saves

Writes == Rooms \X (1..MaxList)

VARIABLES
  key,        \* of a write: its player and what is to be saved, or << >>
  answers,    \* of a write: the answers it got
  sent,       \* the writes that were sent to the storage nodes
  applied,    \* of a write: the storage nodes that have put its datum
  db,         \* what each storage node has of each player
  over        \* the rooms that were reported over

vars == <<key, answers, sent, applied, db, over>>

Asked(r) == {w \in Writes : w[1] = r /\ key[w] # << >>}
Open(w)  == key[w] # << >> /\ answers[w] = << >>

Init ==
  /\ key = [w \in Writes |-> << >>] /\ answers = [w \in Writes |-> << >>]
  /\ sent = {}
  /\ applied = [w \in Writes |-> {}]
  /\ db = [s \in Stores |-> [u \in Users |-> InitData]]
  /\ over = {}

\* A room asks for the data of its players to be saved, whatever they are.
Ask(r) ==
  /\ Asked(r) = {}
  /\ \E n \in 1..MaxList : \E what \in [1..n -> Users \X Data] :
       key' = [w \in Writes |-> IF w[1] = r /\ w[2] <= n THEN what[w[2]] ELSE key[w]]
  /\ UNCHANGED <<answers, sent, applied, db, over>>

Send(w) ==
  /\ Open(w) /\ w \notin sent
  /\ sent' = sent \cup {w}
  /\ UNCHANGED <<key, answers, applied, db, over>>

\* A storage node puts the datum: once, and perhaps after the write has ended.
Apply(w, s) ==
  /\ w \in sent /\ s \notin applied[w]
  /\ applied' = [applied EXCEPT ![w] = @ \cup {s}]
  /\ db' = [db EXCEPT ![s][key[w][1]] = key[w][2]]
  /\ UNCHANGED <<key, answers, sent, over>>

\* What may be answered, and when.
MayAnswer(w, a) ==
  \/ a = "ok" /\ w \in sent /\ applied[w] \in Quorums
  \/ a = "failed" /\ w \in sent
  \/ a \in {"timeout", "reentry"} /\ w \notin sent

End(w, a) ==
  /\ Open(w) /\ MayAnswer(w, a)
  /\ answers' = [answers EXCEPT ![w] = <<a>>]
  /\ UNCHANGED <<key, sent, applied, db, over>>

Report(r) ==
  /\ \A w \in Asked(r) : ~Open(w)
  /\ \E w \in Asked(r) : answers[w] = <<"ok">>
  /\ over' = over \cup {r}
  /\ UNCHANGED <<key, answers, sent, applied, db>>

Next ==
  \/ \E r \in Rooms : Ask(r) \/ Report(r)
  \/ \E w \in Writes : Send(w) \/ \E s \in Stores : Apply(w, s)
  \/ \E w \in Writes, a \in {"ok", "timeout", "failed", "reentry"} : End(w, a)

Spec == Init /\ [][Next]_vars
=============================================================================
