------------------------ MODULE ConsensusWriteProofs ------------------------
(***************************************************************************)
(* What is proved of ConsensusWrite for every number of players, rooms,    *)
(* supervisors, storage nodes, values and players per room: its safety     *)
(* properties, that it implements RoomSave, and what follows for the data  *)
(* and the report of a room that was saved.                                *)
(***************************************************************************)
EXTENDS ConsensusWrite, FiniteSetTheorems, FunctionTheorems, TLAPS

USE DEF Writes, Messages, Room, Statuses, Answers, RpcStates, NotSentYet

-----------------------------------------------------------------------------
(* Type correctness.                                                       *)

\* Calling a callback once more keeps the types of what it changes.
LEMMA CallbackType ==
  ASSUME NEW w \in Writes, NEW a \in Answers, TypeOK, Callback(w, a)
  PROVE  answers' \in [Writes -> Seq(Answers)] /\ supKnown' \subseteq Rooms
BY DEF TypeOK, Callback

\* The writes a room starts: each with a key, the accepted ones with a key that
\* is neither pending nor another's.
LEMMA NewWritesType ==
  ASSUME NEW r \in Rooms, NEW n \in 1..MaxList, NEW list \in [1..n -> Users], TypeOK
  PROVE  /\ NewWrites(r, n) \subseteq Writes
         /\ Accepted(r, n, list) \subseteq NewWrites(r, n)
         /\ \A w \in NewWrites(r, n) : NewKey(list, w) \in Users \X Data
         /\ \A w \in Accepted(r, n, list) : \A v \in pending : key[v] # NewKey(list, w)
         /\ \A v, w \in Accepted(r, n, list) : NewKey(list, v) = NewKey(list, w) => v = w
<1>1. \A w \in NewWrites(r, n) : w[2] \in 1..n /\ w = <<r, w[2]>>
  BY ConstantsAssumption DEF NewWrites
<1>2. \A v, w \in Accepted(r, n, list) : NewKey(list, v) = NewKey(list, w) => v = w
  <2> SUFFICES ASSUME NEW v \in Accepted(r, n, list), NEW w \in Accepted(r, n, list),
                      list[v[2]] = list[w[2]]
               PROVE  v = w
    BY DEF NewKey
  <2>1. ~ (v[2] < w[2]) /\ ~ (w[2] < v[2])
    BY DEF Accepted
  <2>2. v \in NewWrites(r, n) /\ w \in NewWrites(r, n)
    BY DEF Accepted
  <2> QED
    BY <1>1, <2>1, <2>2, ConstantsAssumption
<1>3. \A w \in NewWrites(r, n) : NewKey(list, w) \in Users \X Data
  BY <1>1 DEF NewKey, TypeOK
<1> QED
  BY <1>2, <1>3 DEF NewWrites, Accepted, InUse

\* A write that was called belongs to a room whose save was started, and a pending
\* one is waiting or writing: so the writes a room starts are all fresh.
CalledInv ==
  /\ \A w \in Writes : status[w] # "none" => \E i \in DOMAIN saved : saved[i] = Room(w)
  /\ \A w \in pending : status[w] \in {"wait", "writing"}

TypeInv == TypeOK /\ CalledInv

\* TypeInv is kept by the start of a room's writes.
LEMMA SaveRoomType ==
  ASSUME NEW r \in Rooms, TypeInv, SaveRoom(r)
  PROVE  TypeInv'
<1>1. PICK n \in 1..MaxList : \E list \in [1..n -> Users] : SaveList(r, n, list)
  BY DEF SaveRoom
<1>2. PICK list \in [1..n -> Users] : SaveList(r, n, list)
  BY <1>1
<1> DEFINE new == NewWrites(r, n)
           acc == Accepted(r, n, list)
<1>3. /\ new \subseteq Writes /\ acc \subseteq new
      /\ \A w \in new : NewKey(list, w) \in Users \X Data
      /\ \A w \in acc : \A v \in pending : key[v] # NewKey(list, w)
      /\ \A v, w \in acc : NewKey(list, v) = NewKey(list, w) => v = w
  BY NewWritesType DEF TypeInv
<1>4. \A w \in new : status[w] = "none" /\ w \notin pending
  BY <1>2 DEF SaveList, NewWrites, TypeInv, CalledInv
<1>5. saved' \in Seq(Rooms) /\ \E i \in DOMAIN saved' : saved'[i] = r
  <2>1. saved \in Seq(Rooms) /\ saved' = Append(saved, r)
    BY <1>2 DEF SaveList, TypeInv, TypeOK
  <2>2. Len(saved) + 1 \in DOMAIN saved' /\ saved'[Len(saved) + 1] = r
    BY <2>1
  <2> QED
    BY <2>1, <2>2
<1>6. \A i \in DOMAIN saved : i \in DOMAIN saved' /\ saved'[i] = saved[i]
  BY <1>2 DEF SaveList, TypeInv, TypeOK
<1>7. DOMAIN key' = Writes /\ status' \in [Writes -> Statuses]
  BY <1>2 DEF SaveList, TypeInv, TypeOK
<1>8. \A w \in Writes : status'[w] # "none" => key'[w] \in Users \X Data
  BY <1>2, <1>3 DEF SaveList, TypeInv, TypeOK
<1>9. pending' = pending \cup acc /\ pending' \subseteq Writes /\ armed' \subseteq Writes
  BY <1>2, <1>3 DEF SaveList, TypeInv, TypeOK
<1>10. asked' \subseteq Messages
  BY <1>2, <1>3, ConstantsAssumption DEF SaveList, TypeInv, TypeOK
<1>11. /\ \A w \in acc : key'[w] = NewKey(list, w) /\ status'[w] = "wait"
       /\ \A w \in pending : key'[w] = key[w] /\ status'[w] = status[w]
  BY <1>2, <1>3, <1>4 DEF SaveList, TypeInv, TypeOK
<1>12. \A v, w \in pending' : key'[v] = key'[w] => v = w
  BY <1>3, <1>9, <1>11 DEF TypeInv, TypeOK
<1>13. TypeOK'
  BY <1>2, <1>5, <1>7, <1>8, <1>9, <1>10, <1>12
     DEF SaveList, rpcVars, TypeInv, TypeOK
<1>14. \A w \in Writes : status'[w] # "none" => \E i \in DOMAIN saved' : saved'[i] = Room(w)
  BY <1>2, <1>5, <1>6 DEF SaveList, Accepted, NewWrites, TypeInv, CalledInv
<1> QED
  BY <1>9, <1>11, <1>13, <1>14 DEF TypeInv, CalledInv

\* TypeInv is kept by every other step of the logic node.
LEMMA LogicStepType ==
  ASSUME TypeInv, NEW w \in Writes, RefuseReentry(w) \/ Timer(w) \/ WriteSettles(w)
  PROVE  TypeInv'
<1>1. CASE RefuseReentry(w)
  <2>1. answers' \in [Writes -> Seq(Answers)] /\ supKnown' \subseteq Rooms
    BY <1>1, CallbackType DEF RefuseReentry, TypeInv
  <2> QED
    BY <1>1, <2>1 DEF RefuseReentry, supVars, rpcVars, TypeInv, TypeOK, CalledInv
<1>2. CASE Timer(w)
  <2>1. answers' \in [Writes -> Seq(Answers)] /\ supKnown' \subseteq Rooms
    <3>1. CASE \E v \in pending : TimesOut(v) /\ Callback(v, "timeout")
      BY <3>1, CallbackType DEF TypeInv, TypeOK
    <3>2. CASE UNCHANGED <<answers, supKnown>>
      BY <3>2 DEF TypeInv, TypeOK
    <3> QED
      BY <1>2, <3>1, <3>2 DEF Timer
  <2>2. pending' \subseteq pending /\ armed' \subseteq armed
    BY <1>2 DEF Timer
  <2>3. UNCHANGED <<live, saved, key, status, signers, report, supVars, rpcVars>>
    BY <1>2 DEF Timer
  <2> QED
    BY <2>1, <2>2, <2>3 DEF supVars, rpcVars, TypeInv, TypeOK, CalledInv
<1>3. CASE WriteSettles(w)
  <2>1. answers' \in [Writes -> Seq(Answers)] /\ supKnown' \subseteq Rooms
    BY <1>3, CallbackType DEF WriteSettles, TypeInv
  <2>2. /\ pending' = {v \in pending : key[v] # key[w]}
        /\ status' = [status EXCEPT ![w] = "settled"]
        /\ status[w] = "writing"
        /\ UNCHANGED <<live, saved, key, signers, armed, report, supVars, rpcVars>>
    BY <1>3 DEF WriteSettles
  <2>3. TypeOK'
    BY <2>1, <2>2 DEF supVars, rpcVars, TypeInv, TypeOK
  <2>4. CalledInv'
    BY <2>2 DEF TypeInv, TypeOK, CalledInv
  <2> QED
    BY <2>3, <2>4 DEF TypeInv
<1> QED
  BY <1>1, <1>2, <1>3

\* TypeInv is kept when a signed message is pushed on a write.
LEMMA CollectType ==
  ASSUME TypeInv, NEW m \in Messages, NEW w \in Writes, CollectVerified(m, w)
  PROVE  TypeInv'
<1>1. /\ signers' = [signers EXCEPT ![w] = signers[w] \cup {m}]
      /\ signed' = signed \ {m}
      /\ w \in pending
      /\ UNCHANGED <<live, supKnown, saved, key, answers, pending, armed, report,
                     asked, queued, db>>
  BY DEF CollectVerified, Finds
<1>2. User(w) \in Users
  BY <1>1 DEF TypeInv, TypeOK, CalledInv, User
<1>3. signers' \in [Writes -> SUBSET Messages]
  BY <1>1 DEF TypeInv, TypeOK
<1>4. CASE UNCHANGED <<status, rpc, rpcData>>
  BY <1>1, <1>3, <1>4 DEF TypeInv, TypeOK, CalledInv
<1>5. CASE /\ status' = [status EXCEPT ![w] = "writing"]
           /\ rpc' = [rpc EXCEPT ![w] = [s \in Stores |-> "sent"]]
           /\ rpcData' = [rpcData EXCEPT ![w] = live[User(w)]]
           /\ status[w] = "wait"
  <2>1. /\ status' \in [Writes -> Statuses]
        /\ rpc' \in [Writes -> [Stores -> RpcStates]]
        /\ rpcData' \in [Writes -> Data]
    BY <1>2, <1>5 DEF TypeInv, TypeOK
  <2>2. \A v \in Writes : status'[v] # "none" <=> status[v] # "none"
    BY <1>5 DEF TypeInv, TypeOK
  <2>3. TypeOK'
    BY <1>1, <1>3, <2>1, <2>2 DEF TypeInv, TypeOK
  <2>4. CalledInv'
    BY <1>1, <1>5, <2>2 DEF TypeInv, TypeOK, CalledInv
  <2> QED
    BY <2>3, <2>4 DEF TypeInv
<1> QED
  BY <1>4, <1>5 DEF CollectVerified

\* TypeInv is kept by the supervisors and by the network between them.
LEMMA SupervisorStepType ==
  ASSUME TypeInv,
         \/ \E m \in Messages : RequestArrives(m) \/ LoseMessage(m) \/ IgnoreVerified(m)
         \/ \E s \in Sups : VerificationJob(s)
  PROVE  TypeInv'
<1>1. /\ asked' \subseteq asked
      /\ queued' \subseteq asked \cup queued
      /\ signed' \subseteq signed \cup queued
      /\ UNCHANGED <<logicVars, rpcVars>>
  BY DEF RequestArrives, LoseMessage, IgnoreVerified, VerificationJob
<1> QED
  BY <1>1 DEF logicVars, rpcVars, TypeInv, TypeOK, CalledInv

\* TypeInv is kept by the storage nodes and by the connections to them.
LEMMA StoreStepType ==
  ASSUME TypeInv, NEW w \in Writes, NEW s \in Stores,
         \/ StoreApplies(w, s) \/ StoreRefuses(w, s)
         \/ StoreReplies(w, s) \/ ConnectionBreaks(w, s)
  PROVE  TypeInv'
<1>1. \E x \in RpcStates : rpc' = [rpc EXCEPT ![w][s] = x]
  BY DEF StoreApplies, StoreRefuses, StoreReplies, ConnectionBreaks
<1>2. rpc' \in [Writes -> [Stores -> RpcStates]]
  BY <1>1 DEF TypeInv, TypeOK
<1>3. db' \in [Stores -> [Users -> Data]]
  <2>1. CASE StoreApplies(w, s)
    BY <2>1 DEF StoreApplies, TypeInv, TypeOK
  <2> QED
    BY <2>1 DEF StoreRefuses, StoreReplies, ConnectionBreaks, TypeInv, TypeOK
<1>4. UNCHANGED <<logicVars, supVars, rpcData>>
  BY DEF StoreApplies, StoreRefuses, StoreReplies, ConnectionBreaks
<1> QED
  BY <1>2, <1>3, <1>4 DEF logicVars, supVars, TypeInv, TypeOK, CalledInv

\* The inductive step of type correctness.
LEMMA TypeInvStep == TypeInv /\ [Next]_vars => TypeInv'
<1> SUFFICES ASSUME TypeInv, [Next]_vars PROVE TypeInv'
  OBVIOUS
<1>1. ASSUME NEW r \in Rooms, SaveRoom(r) PROVE TypeInv'
  BY <1>1, SaveRoomType
<1>2. ASSUME NEW r \in Rooms, ReportRoom(r) PROVE TypeInv'
  <2>1. report' \in [Rooms -> SUBSET Messages]
    BY <1>2 DEF ReportRoom, TypeInv, TypeOK
  <2> QED
    BY <1>2, <2>1 DEF ReportRoom, supVars, rpcVars, TypeInv, TypeOK, CalledInv
<1>3. ASSUME NEW w \in Writes, RefuseReentry(w) \/ Timer(w) \/ WriteSettles(w)
      PROVE TypeInv'
  BY <1>3, LogicStepType
<1>4. ASSUME NEW m \in Messages, NEW w \in Writes, CollectVerified(m, w) PROVE TypeInv'
  BY <1>4, CollectType
<1>5. CASE \/ \E m \in Messages : RequestArrives(m) \/ LoseMessage(m) \/ IgnoreVerified(m)
           \/ \E s \in Sups : VerificationJob(s)
  BY <1>5, SupervisorStepType
<1>6. ASSUME NEW w \in Writes, NEW s \in Stores,
             \/ StoreApplies(w, s) \/ StoreRefuses(w, s)
             \/ StoreReplies(w, s) \/ ConnectionBreaks(w, s)
      PROVE TypeInv'
  BY <1>6, StoreStepType
<1>7. ASSUME NEW u \in Users, NEW d \in Data, GameChanges(u, d) PROVE TypeInv'
  BY <1>7 DEF GameChanges, supVars, rpcVars, TypeInv, TypeOK, CalledInv
<1>8. CASE UNCHANGED vars
  BY <1>8 DEF vars, logicVars, supVars, rpcVars, TypeInv, TypeOK, CalledInv
<1> QED
  BY <1>1, <1>2, <1>3, <1>4, <1>5, <1>6, <1>7, <1>8 DEF Next

\* Every variable keeps its type, in every instance of the specification.
THEOREM TypeCorrect == Spec => []TypeOK
<1>1. Init => TypeInv
  BY ConstantsAssumption DEF Init, TypeInv, TypeOK, CalledInv
<1>2. TypeInv => TypeOK
  BY DEF TypeInv
<1> QED
  BY <1>1, <1>2, TypeInvStep, PTL DEF Spec

-----------------------------------------------------------------------------
(* How often, and how late, a write is answered.                           *)

\* An entry that is still pending has not been answered, nor has a write whose
\* RPCs are on their way; only a started write has RPCs, and one that timed out
\* is out of the map before it was started.
AnswersInv ==
  /\ \A w \in Writes : Len(answers[w]) <= 1
  /\ \A w \in Writes : status[w] \in {"none", "writing"} => answers[w] = << >>
  /\ \A w \in pending : answers[w] = << >>
  /\ \A w \in Writes : Answered(w, "timeout") => status[w] = "wait" /\ w \notin pending
  /\ \A w \in Writes, s \in Stores : rpc[w][s] # "none" => Started(w)

\* The first call of a callback leaves one answer.
LEMMA FirstCallback ==
  ASSUME NEW w \in Writes, NEW a \in Answers, TypeOK, answers[w] = << >>, Callback(w, a)
  PROVE  /\ answers' = [answers EXCEPT ![w] = <<a>>]
         /\ Len(answers'[w]) = 1
         /\ \A b \in Answers : Answered(w, b)' <=> b = a
         /\ \A v \in Writes \ {w} : answers'[v] = answers[v]
         /\ \A v \in Writes \ {w}, b \in Answers : Answered(v, b)' <=> Answered(v, b)
<1>1. answers' = [answers EXCEPT ![w] = <<a>>]
  BY DEF Callback
<1>2. answers'[w] = <<a>> /\ \A v \in Writes \ {w} : answers'[v] = answers[v]
  BY <1>1 DEF TypeOK
<1> QED
  BY <1>1, <1>2 DEF Answered

\* What a step that calls a callback for the first time has to respect for
\* AnswersInv: the write leaves the map, and is not "writing" any more.
LEMMA CallbackAnswers ==
  ASSUME TypeInv, AnswersInv, NEW w \in Writes, NEW a \in Answers,
         answers[w] = << >>, Callback(w, a),
         pending' \subseteq pending, w \notin pending', UNCHANGED rpc,
         status'[w] \notin {"none", "writing"},
         a = "timeout" => status'[w] = "wait",
         Started(w) => Started(w)',
         \A v \in Writes \ {w} : status'[v] = status[v]
  PROVE  AnswersInv'
<1>1. /\ Len(answers'[w]) = 1
      /\ Answered(w, "timeout")' <=> a = "timeout"
      /\ \A v \in Writes \ {w} :
           answers'[v] = answers[v] /\ (Answered(v, "timeout")' <=> Answered(v, "timeout"))
  BY FirstCallback DEF TypeInv
<1>2. ASSUME NEW v \in Writes PROVE Len(answers'[v]) <= 1
  <2>1. CASE v = w
    <3>1. Len(answers'[v]) = 1
      BY <1>1, <2>1, Zenon
    <3> QED
      BY <3>1
  <2>2. CASE v # w
    <3>1. answers'[v] = answers[v]
      BY <1>1, <2>2
    <3> QED
      BY <3>1 DEF AnswersInv
  <2> QED
    BY <2>1, <2>2
<1>3. \A v \in Writes : status'[v] \in {"none", "writing"} => answers'[v] = << >>
  BY <1>1 DEF AnswersInv
<1>4. \A v \in pending' : answers'[v] = << >>
  BY <1>1 DEF AnswersInv, TypeInv, TypeOK
<1>5. ASSUME NEW v \in Writes, Answered(v, "timeout")'
      PROVE  status'[v] = "wait" /\ v \notin pending'
  <2>1. CASE v = w
    BY <1>1, <1>5, <2>1
  <2>2. CASE v # w
    BY <1>1, <1>5, <2>2 DEF AnswersInv
  <2> QED
    BY <2>1, <2>2
<1>6. \A v \in Writes, s \in Stores : rpc'[v][s] # "none" => Started(v)'
  BY DEF AnswersInv, Started
<1> QED
  BY <1>2, <1>3, <1>4, <1>5, <1>6 DEF AnswersInv

\* A step that leaves answers alone leaves Answered alone.
LEMMA SameAnswers ==
  ASSUME UNCHANGED answers
  PROVE  \A w \in Writes, a \in Answers : Answered(w, a)' <=> Answered(w, a)
BY DEF Answered

\* AnswersInv is kept by the start of a room's writes: those were never called.
LEMMA SaveRoomAnswers ==
  ASSUME NEW r \in Rooms, TypeInv, AnswersInv, SaveRoom(r)
  PROVE  AnswersInv'
<1>1. PICK n \in 1..MaxList : \E list \in [1..n -> Users] : SaveList(r, n, list)
  BY DEF SaveRoom
<1>2. PICK list \in [1..n -> Users] : SaveList(r, n, list)
  BY <1>1
<1> DEFINE new == NewWrites(r, n)
           acc == Accepted(r, n, list)
<1>3. \A w \in new : status[w] = "none"
  BY <1>2 DEF SaveList, NewWrites, TypeInv, CalledInv
<1>4. new \subseteq Writes /\ acc \subseteq new
  BY DEF NewWrites, Accepted
<1>5. UNCHANGED <<answers, rpc>> /\ pending' = pending \cup acc
  BY <1>2 DEF SaveList, rpcVars
<1>6. \A w \in Writes : w \notin new => status'[w] = status[w]
  BY <1>2, <1>4 DEF SaveList, TypeInv, TypeOK
<1>7. \A w \in new : status'[w] \in {"wait", "refused"} /\ answers[w] = << >>
  BY <1>2, <1>3, <1>4 DEF SaveList, AnswersInv
<1>8. \A w \in Writes : Answered(w, "timeout")' => w \notin new /\ Answered(w, "timeout")
  BY <1>5, <1>7, SameAnswers DEF Answered
<1> QED
  BY <1>3, <1>4, <1>5, <1>6, <1>7, <1>8 DEF AnswersInv, Started, TypeInv, TypeOK

\* AnswersInv is kept by the three steps that call a callback.
LEMMA CallbackStepAnswers ==
  ASSUME TypeInv, AnswersInv, NEW w \in Writes,
         RefuseReentry(w) \/ Timer(w) \/ WriteSettles(w)
  PROVE  AnswersInv'
<1>1. CASE RefuseReentry(w)
  <2>1. /\ status[w] = "refused" /\ answers[w] = << >>
        /\ Callback(w, "reentry")
        /\ UNCHANGED <<status, pending, rpc>>
    BY <1>1 DEF RefuseReentry, rpcVars
  <2>2. w \notin pending'
    BY <2>1 DEF TypeInv, CalledInv
  <2> QED
    BY <2>1, <2>2, CallbackAnswers DEF Started
<1>2. CASE Timer(w)
  <2>1. UNCHANGED <<status, rpc>> /\ pending' = {v \in pending : key[v] # key[w]}
    BY <1>2 DEF Timer, rpcVars
  <2>2. ASSUME NEW v \in pending, key[v] = key[w], TimesOut(v), Callback(v, "timeout")
        PROVE  AnswersInv'
    <3>1. v \in Writes /\ v \notin pending' /\ status[v] = "wait" /\ answers[v] = << >>
      BY <2>1, <2>2 DEF TimesOut, AnswersInv, TypeInv, TypeOK
    <3> QED
      BY <2>1, <2>2, <3>1, CallbackAnswers DEF Started
  <2>3. CASE UNCHANGED <<answers, supKnown>>
    BY <2>1, <2>3, SameAnswers DEF AnswersInv, Started, TypeInv, TypeOK
  <2> QED
    BY <1>2, <2>2, <2>3 DEF Timer
<1>3. CASE WriteSettles(w)
  <2>1. /\ status[w] = "writing" /\ status' = [status EXCEPT ![w] = "settled"]
        /\ pending' = {v \in pending : key[v] # key[w]}
        /\ UNCHANGED rpc
        /\ \E a \in {"ok", "failed"} : Callback(w, a)
    BY <1>3 DEF WriteSettles, rpcVars
  <2>2. PICK a \in {"ok", "failed"} : Callback(w, a)
    BY <2>1
  <2>3. answers[w] = << >>
    BY <2>1 DEF AnswersInv
  <2>4. status'[w] = "settled" /\ \A v \in Writes \ {w} : status'[v] = status[v]
    BY <2>1 DEF TypeInv, TypeOK
  <2>5. w \notin pending' /\ pending' \subseteq pending
    BY <2>1
  <2> QED
    BY <2>1, <2>2, <2>3, <2>4, <2>5, CallbackAnswers DEF Started
<1> QED
  BY <1>1, <1>2, <1>3

\* AnswersInv is kept when a signed message is pushed on a write, be it started
\* by that or not.
LEMMA CollectAnswers ==
  ASSUME TypeInv, AnswersInv, NEW m \in Messages, NEW w \in Writes, CollectVerified(m, w)
  PROVE  AnswersInv'
<1>1. w \in pending /\ UNCHANGED <<answers, pending>>
  BY DEF CollectVerified, Finds
<1>2. CASE UNCHANGED <<status, rpc>>
  BY <1>1, <1>2, SameAnswers DEF AnswersInv, Started
<1>3. CASE /\ status[w] = "wait"
           /\ status' = [status EXCEPT ![w] = "writing"]
           /\ rpc' = [rpc EXCEPT ![w] = [s \in Stores |-> "sent"]]
  <2>1. status'[w] = "writing" /\ \A v \in Writes \ {w} : status'[v] = status[v]
    BY <1>3 DEF TypeInv, TypeOK
  <2>2. \A v \in Writes \ {w} : rpc'[v] = rpc[v]
    BY <1>3 DEF TypeInv, TypeOK
  <2>3. \A v \in Writes, s \in Stores : rpc'[v][s] # "none" => Started(v)'
    BY <2>1, <2>2 DEF AnswersInv, Started
  <2>4. answers[w] = << >> /\ ~Answered(w, "timeout")
    BY <1>1 DEF AnswersInv
  <2> QED
    BY <1>1, <2>1, <2>3, <2>4, SameAnswers DEF AnswersInv
<1> QED
  BY <1>2, <1>3 DEF CollectVerified

\* AnswersInv is kept by the storage nodes: they only answer RPCs that were sent.
LEMMA StoreStepAnswers ==
  ASSUME TypeInv, AnswersInv, NEW w \in Writes, NEW s \in Stores,
         \/ StoreApplies(w, s) \/ StoreRefuses(w, s)
         \/ StoreReplies(w, s) \/ ConnectionBreaks(w, s)
  PROVE  AnswersInv'
<1>1. /\ rpc[w][s] # "none"
      /\ \E x \in RpcStates : rpc' = [rpc EXCEPT ![w][s] = x]
      /\ UNCHANGED <<status, answers, pending>>
  BY DEF StoreApplies, StoreRefuses, StoreReplies, ConnectionBreaks, logicVars
<1>2. \A v \in Writes, t \in Stores : rpc'[v][t] # "none" => rpc[v][t] # "none"
  BY <1>1 DEF TypeInv, TypeOK
<1> QED
  BY <1>1, <1>2, SameAnswers DEF AnswersInv, Started

\* The inductive step: how a write is answered.
LEMMA AnswersInvStep == TypeInv /\ AnswersInv /\ [Next]_vars => AnswersInv'
<1> SUFFICES ASSUME TypeInv, AnswersInv, [Next]_vars PROVE AnswersInv'
  OBVIOUS
<1>1. ASSUME NEW r \in Rooms, SaveRoom(r) PROVE AnswersInv'
  BY <1>1, SaveRoomAnswers
<1>2. ASSUME NEW w \in Writes, RefuseReentry(w) \/ Timer(w) \/ WriteSettles(w)
      PROVE AnswersInv'
  BY <1>2, CallbackStepAnswers
<1>3. ASSUME NEW m \in Messages, NEW w \in Writes, CollectVerified(m, w)
      PROVE AnswersInv'
  BY <1>3, CollectAnswers
<1>4. ASSUME NEW w \in Writes, NEW s \in Stores,
             \/ StoreApplies(w, s) \/ StoreRefuses(w, s)
             \/ StoreReplies(w, s) \/ ConnectionBreaks(w, s)
      PROVE AnswersInv'
  BY <1>4, StoreStepAnswers
<1>5. CASE UNCHANGED <<status, answers, pending, rpc>>
  BY <1>5, SameAnswers DEF AnswersInv, Started
<1>6. ASSUME \/ \E r \in Rooms : ReportRoom(r)
             \/ \E m \in Messages : RequestArrives(m) \/ LoseMessage(m) \/ IgnoreVerified(m)
             \/ \E s \in Sups : VerificationJob(s)
             \/ \E u \in Users, d \in Data : GameChanges(u, d)
             \/ UNCHANGED vars
      PROVE UNCHANGED <<status, answers, pending, rpc>>
  BY <1>6 DEF ReportRoom, RequestArrives, LoseMessage, IgnoreVerified, VerificationJob,
              GameChanges, vars, logicVars, rpcVars
<1> QED
  BY <1>1, <1>2, <1>3, <1>4, <1>5, <1>6 DEF Next

\* The callback of a write is called at most once (AnsweredAtMostOnce), whatever
\* timers and RPCs of other writes of the same key do.
THEOREM AnsweredOnce == Spec => []AnsweredAtMostOnce
<1>1. Init => AnswersInv
  BY DEF Init, AnswersInv, Answered
<1>2. Spec => [](TypeInv /\ AnswersInv)
  <2>1. Init => TypeInv /\ AnswersInv
    BY <1>1, ConstantsAssumption DEF Init, TypeInv, TypeOK, CalledInv
  <2> QED
    BY <2>1, TypeInvStep, AnswersInvStep, PTL DEF Spec
<1>3. AnswersInv => AnsweredAtMostOnce
  BY DEF AnswersInv, AnsweredAtMostOnce
<1> QED
  BY <1>2, <1>3, PTL

\* A write answered "timeout" never reaches a storage node (TimedOutNeverStored).
THEOREM TimeoutIsFinal == Spec => []TimedOutNeverStored
<1>1. Init => TypeInv /\ AnswersInv
  BY ConstantsAssumption DEF Init, TypeInv, TypeOK, CalledInv, AnswersInv, Answered
<1>2. AnswersInv => TimedOutNeverStored
  BY DEF AnswersInv, TimedOutNeverStored, Started
<1> QED
  BY <1>1, <1>2, TypeInvStep, AnswersInvStep, PTL DEF Spec

-----------------------------------------------------------------------------
(* What the storage nodes hold.                                            *)

\* A message was asked for by a write that was called, of a supervisor of that
\* write's room, for the write's key; and a storage node holds what a started write
\* has the digest of.
MessagesInv ==
  \A m \in asked \cup queued \cup signed :
    status[m[1]] # "none" /\ m[2] \in RoomSups[Room(m[1])]

SignersInv ==
  \A w \in Writes : \A m \in signers[w] :
    status[w] # "none" /\ status[m[1]] # "none" /\ Vouches(m, w)

Sent(u, d) == \E w \in Writes : Started(w) /\ key[w] = <<u, d>>

SentInv ==
  \A s \in Stores, u \in Users, d \in Data \ {InitData} : db[s][u] = d => Sent(u, d)

ApprovalInv == MessagesInv /\ SignersInv /\ SentInv

\* Only finitely many messages exist, so signatures can be counted; and one more
\* signature is never fewer.
LEMMA CountSignatures ==
  /\ \A S \in SUBSET Messages : IsFiniteSet(S) /\ Cardinality(S) \in Nat
  /\ \A S, T \in SUBSET Messages : S \subseteq T => Cardinality(S) <= Cardinality(T)
  /\ \A r \in Rooms : Threshold(r) \in Nat
<1>1. IsFiniteSet(1..MaxList)
  BY FS_Interval, ConstantsAssumption
<1>2. IsFiniteSet(Messages)
  BY <1>1, FS_Product, ConstantsAssumption
<1>3. \A S \in SUBSET Messages : IsFiniteSet(S) /\ Cardinality(S) \in Nat
  BY <1>2, FS_Subset, FS_CardinalityType
<1>4. \A S, T \in SUBSET Messages : S \subseteq T => Cardinality(S) <= Cardinality(T)
  BY <1>3, FS_Subset
<1>5. ASSUME NEW r \in Rooms PROVE Threshold(r) \in Nat
  <2>1. IsFiniteSet(RoomSups[r])
    BY FS_Subset, ConstantsAssumption
  <2>2. Cardinality(RoomSups[r]) \in Nat
    BY <2>1, FS_CardinalityType
  <2> QED
    BY <2>2 DEF Threshold
<1> QED
  BY <1>3, <1>4, <1>5

\* A step that changes no key of a started write and no database, and after which
\* the started writes are started still, keeps SentInv.
LEMMA SentKept ==
  ASSUME ApprovalInv, UNCHANGED db,
         \A w \in Writes : Started(w) => Started(w)' /\ key'[w] = key[w]
  PROVE  SentInv'
BY DEF ApprovalInv, SentInv, Sent

\* The messages and signatures of a step that calls no write and pushes none.
LEMMA MessagesKept ==
  ASSUME TypeInv, ApprovalInv, UNCHANGED <<key, signers>>,
         \A w \in Writes : status[w] # "none" => status'[w] # "none",
         asked' \cup queued' \cup signed' \subseteq asked \cup queued \cup signed
  PROVE  MessagesInv' /\ SignersInv'
BY DEF ApprovalInv, MessagesInv, SignersInv, Vouches, TypeInv, TypeOK

\* ApprovalInv is kept by the start of a room's writes: what they ask for is
\* asked of the room's supervisors, and no called write changes its key.
LEMMA SaveRoomApproval ==
  ASSUME NEW r \in Rooms, TypeInv, TypeInv', ApprovalInv, SaveRoom(r)
  PROVE  ApprovalInv'
<1>1. PICK n \in 1..MaxList : \E list \in [1..n -> Users] : SaveList(r, n, list)
  BY DEF SaveRoom
<1>2. PICK list \in [1..n -> Users] : SaveList(r, n, list)
  BY <1>1
<1> DEFINE new == NewWrites(r, n)
           acc == Accepted(r, n, list)
<1>3. \A w \in new : status[w] = "none"
  BY <1>2 DEF SaveList, NewWrites, TypeInv, CalledInv
<1>4. new \subseteq Writes /\ acc \subseteq new /\ \A w \in new : Room(w) = r
  BY DEF NewWrites, Accepted
<1>5. /\ UNCHANGED <<signers, db, queued, signed>>
      /\ asked' = asked \cup (acc \X RoomSups[r])
  BY <1>2 DEF SaveList, rpcVars
<1>6. /\ \A w \in Writes : w \notin new => status'[w] = status[w] /\ key'[w] = key[w]
      /\ \A w \in new : status'[w] \in {"wait", "refused"}
  BY <1>2, <1>4 DEF SaveList, TypeInv, TypeOK
<1>7. MessagesInv'
  <2> SUFFICES ASSUME NEW m \in asked' \cup queued' \cup signed'
               PROVE  status'[m[1]] # "none" /\ m[2] \in RoomSups[Room(m[1])]
    BY DEF MessagesInv
  <2>1. CASE m \in acc \X RoomSups[r]
    BY <1>4, <1>6, <2>1
  <2>2. CASE m \in asked \cup queued \cup signed
    BY <1>3, <1>6, <2>2 DEF ApprovalInv, MessagesInv, TypeInv, TypeOK
  <2> QED
    BY <1>5, <2>1, <2>2
<1>8. SignersInv'
  <2> SUFFICES ASSUME NEW w \in Writes, NEW m \in signers[w]
               PROVE  status'[w] # "none" /\ status'[m[1]] # "none" /\ Vouches(m, w)'
    BY <1>5 DEF SignersInv
  <2>1. m[1] \in Writes
    BY DEF TypeInv, TypeOK
  <2>2. status[w] # "none" /\ status[m[1]] # "none" /\ Vouches(m, w)
    BY DEF ApprovalInv, SignersInv
  <2> QED
    BY <1>3, <1>6, <2>1, <2>2 DEF Vouches
<1>9. \A w \in Writes : Started(w)' <=> Started(w)
  BY <1>3, <1>6 DEF Started
<1>10. SentInv'
  <2>1. \A w \in Writes : Started(w) => key'[w] = key[w]
    BY <1>3, <1>6 DEF Started
  <2> QED
    BY <1>5, <1>9, <2>1, SentKept
<1> QED
  BY <1>7, <1>8, <1>10 DEF ApprovalInv

\* ApprovalInv is kept when a signed message is pushed: it is one more signature
\* over the key of the write.
LEMMA CollectApproval ==
  ASSUME TypeInv, TypeInv', ApprovalInv, NEW m \in Messages, NEW w \in Writes,
         CollectVerified(m, w)
  PROVE  ApprovalInv'
<1>1. /\ m \in signed /\ w \in pending /\ key[w] = key[m[1]]
      /\ signers' = [signers EXCEPT ![w] = signers[w] \cup {m}]
      /\ signed' = signed \ {m}
      /\ UNCHANGED <<key, asked, queued, db>>
  BY DEF CollectVerified, Finds
<1>2. /\ signers'[w] = signers[w] \cup {m}
      /\ \A v \in Writes \ {w} : signers'[v] = signers[v]
  BY <1>1 DEF TypeInv, TypeOK
<1>3. \/ UNCHANGED status
      \/ /\ status' = [status EXCEPT ![w] = "writing"]
         /\ Room(m[1]) \in supKnown /\ Enough(signers'[w], Room(m[1]))
  BY <1>2 DEF CollectVerified
<1>4. \A v \in Writes : status[v] # "none" => status'[v] # "none"
  BY <1>3 DEF TypeInv, TypeOK
<1>5. MessagesInv'
  BY <1>1, <1>4 DEF ApprovalInv, MessagesInv, TypeInv, TypeOK
<1>6. SignersInv'
  <2> SUFFICES ASSUME NEW v \in Writes, NEW l \in signers'[v]
               PROVE  status'[v] # "none" /\ status'[l[1]] # "none" /\ Vouches(l, v)'
    BY DEF SignersInv
  <2>1. CASE l \in signers[v]
    <3>1. status[v] # "none" /\ status[l[1]] # "none" /\ Vouches(l, v) /\ l[1] \in Writes
      BY <2>1 DEF ApprovalInv, SignersInv, TypeInv, TypeOK
    <3> QED
      BY <1>1, <1>4, <3>1 DEF Vouches
  <2>2. CASE v = w /\ l = m
    <3>1. status[w] # "none" /\ status[m[1]] # "none" /\ m[2] \in RoomSups[Room(m[1])]
      BY <1>1 DEF ApprovalInv, MessagesInv, TypeInv, CalledInv
    <3> QED
      BY <1>1, <1>4, <2>2, <3>1 DEF Vouches
  <2> QED
    BY <1>2, <2>1, <2>2
<1>7. SentInv'
  <2>1. \A v \in Writes : Started(v) => Started(v)' /\ key'[v] = key[v]
    BY <1>1, <1>3 DEF Started, TypeInv, TypeOK
  <2> QED
    BY <1>1, <2>1, SentKept
<1> QED
  BY <1>5, <1>6, <1>7 DEF ApprovalInv

\* A storage node applies only what has the digest of a started write: it checks
\* what the RPC carries against what the supervisors signed.
LEMMA StoreStepApproval ==
  ASSUME TypeInv, TypeInv', AnswersInv, ApprovalInv, NEW w \in Writes, NEW s \in Stores,
         \/ StoreApplies(w, s) \/ StoreRefuses(w, s)
         \/ StoreReplies(w, s) \/ ConnectionBreaks(w, s)
  PROVE  ApprovalInv'
<1>1. UNCHANGED <<key, status, signers, asked, queued, signed>>
  BY DEF StoreApplies, StoreRefuses, StoreReplies, ConnectionBreaks, logicVars, supVars
<1>2. MessagesInv' /\ SignersInv'
  BY <1>1, MessagesKept
<1>3. \A v \in Writes : Started(v)' <=> Started(v)
  BY <1>1 DEF Started
<1>4. CASE UNCHANGED db
  <2>1. SentInv'
    BY <1>1, <1>3, <1>4, SentKept
  <2> QED
    BY <1>2, <2>1 DEF ApprovalInv
<1>5. CASE StoreApplies(w, s)
  <2>1. /\ rpc[w][s] # "none" /\ rpcData[w] = Digest(w)
        /\ db' = [db EXCEPT ![s][User(w)] = rpcData[w]]
    BY <1>5 DEF StoreApplies, SignaturesMatch
  <2>2. Started(w) /\ key[w] = <<User(w), Digest(w)>>
    BY <2>1 DEF AnswersInv, Started, User, Digest, TypeInv, TypeOK
  <2>3. ASSUME NEW t \in Stores, NEW u \in Users, NEW d \in Data \ {InitData},
               db'[t][u] = d
        PROVE  Sent(u, d)
    <3>1. CASE t = s /\ u = User(w)
      <4>1. d = Digest(w)
        BY <2>1, <2>3, <3>1 DEF TypeInv, TypeOK
      <4> QED
        BY <2>2, <3>1, <4>1 DEF Sent
    <3>2. CASE ~(t = s /\ u = User(w))
      <4>1. db[t][u] = d
        BY <2>1, <2>3, <3>2 DEF TypeInv, TypeOK
      <4> QED
        BY <4>1 DEF ApprovalInv, SentInv
    <3> QED
      BY <3>1, <3>2
  <2>4. SentInv'
    BY <1>1, <1>3, <2>3 DEF SentInv, Sent
  <2> QED
    BY <1>2, <2>4 DEF ApprovalInv
<1> QED
  BY <1>4, <1>5 DEF StoreRefuses, StoreReplies, ConnectionBreaks

\* The inductive step: what the storage nodes hold was sent to them.
LEMMA ApprovalInvStep ==
  TypeInv /\ TypeInv' /\ AnswersInv /\ ApprovalInv /\ [Next]_vars => ApprovalInv'
<1> SUFFICES ASSUME TypeInv, TypeInv', AnswersInv, ApprovalInv, [Next]_vars
             PROVE  ApprovalInv'
  OBVIOUS
<1>1. ASSUME NEW r \in Rooms, SaveRoom(r) PROVE ApprovalInv'
  BY <1>1, SaveRoomApproval
<1>2. ASSUME NEW m \in Messages, NEW w \in Writes, CollectVerified(m, w)
      PROVE ApprovalInv'
  BY <1>2, CollectApproval
<1>3. ASSUME NEW w \in Writes, NEW s \in Stores,
             \/ StoreApplies(w, s) \/ StoreRefuses(w, s)
             \/ StoreReplies(w, s) \/ ConnectionBreaks(w, s)
      PROVE ApprovalInv'
  BY <1>3, StoreStepApproval
<1>4. ASSUME UNCHANGED <<key, signers, db>>,
             \A w \in Writes : status[w] # "none" => status'[w] # "none",
             \A w \in Writes : Started(w)' <=> Started(w),
             asked' \cup queued' \cup signed' \subseteq asked \cup queued \cup signed
      PROVE ApprovalInv'
  <2>1. MessagesInv' /\ SignersInv'
    BY <1>4, MessagesKept
  <2>2. \A w \in Writes : Started(w) => Started(w)' /\ key'[w] = key[w]
    BY <1>4
  <2>3. SentInv'
    BY <1>4, <2>2, SentKept
  <2> QED
    BY <2>1, <2>3 DEF ApprovalInv
<1>5. ASSUME NEW w \in Writes, WriteSettles(w) PROVE ApprovalInv'
  <2>1. status' = [status EXCEPT ![w] = "settled"] /\ status[w] = "writing"
    BY <1>5 DEF WriteSettles
  <2>2. UNCHANGED <<key, signers, db, asked, queued, signed>>
    BY <1>5 DEF WriteSettles, supVars, rpcVars
  <2>3. \A v \in Writes : Started(v)' <=> Started(v)
    BY <2>1 DEF Started, TypeInv, TypeOK
  <2>4. \A v \in Writes : status[v] # "none" => status'[v] # "none"
    BY <2>1 DEF TypeInv, TypeOK
  <2> QED
    BY <1>4, <2>2, <2>3, <2>4
<1>6. CASE \/ \E r \in Rooms : ReportRoom(r)
           \/ \E w \in Writes : RefuseReentry(w) \/ Timer(w)
           \/ \E m \in Messages : RequestArrives(m) \/ LoseMessage(m) \/ IgnoreVerified(m)
           \/ \E s \in Sups : VerificationJob(s)
           \/ \E u \in Users, d \in Data : GameChanges(u, d)
           \/ UNCHANGED vars
  <2>1. UNCHANGED <<key, signers, db, status>>
    BY <1>6 DEF ReportRoom, RefuseReentry, Timer, RequestArrives, LoseMessage,
                IgnoreVerified, VerificationJob, GameChanges, vars, logicVars, rpcVars
  <2>2. asked' \cup queued' \cup signed' \subseteq asked \cup queued \cup signed
    BY <1>6 DEF ReportRoom, RefuseReentry, Timer, RequestArrives, LoseMessage,
                IgnoreVerified, VerificationJob, GameChanges, vars, supVars
  <2>3. \A w \in Writes : Started(w)' <=> Started(w)
    BY <2>1 DEF Started
  <2> QED
    BY <1>4, <2>1, <2>2, <2>3
<1> QED
  BY <1>1, <1>2, <1>3, <1>5, <1>6 DEF Next

-----------------------------------------------------------------------------
(* What a room's save changes.                                             *)

\* The writes a room starts were never called before; they get a key, and the
\* others keep theirs.
LEMMA SaveRoomKeys ==
  ASSUME NEW r \in Rooms, TypeInv, SaveRoom(r)
  PROVE  /\ \A i \in DOMAIN saved : saved[i] # r
         /\ \E i \in DOMAIN saved' : saved'[i] = r
         /\ \A w \in Writes : Room(w) = r => status[w] = "none"
         /\ \A w \in Writes : Room(w) # r => status'[w] = status[w] /\ key'[w] = key[w]
         /\ \A w \in Writes : Started(w)' <=> Started(w)
         /\ \E n \in 1..MaxList : \E what \in [1..n -> Users \X Data] :
              /\ key' = [w \in Writes |-> IF w[1] = r /\ w[2] <= n THEN what[w[2]] ELSE key[w]]
              /\ \A w \in Writes : w[1] = r /\ ~ w[2] <= n => status'[w] = "none"
              /\ \A w \in Writes : w[1] = r /\ w[2] <= n => status'[w] \in {"wait", "refused"}
         /\ UNCHANGED <<answers, rpc, db, report>>
<1>1. PICK n \in 1..MaxList : \E list \in [1..n -> Users] : SaveList(r, n, list)
  BY DEF SaveRoom
<1>2. PICK list \in [1..n -> Users] : SaveList(r, n, list)
  BY <1>1
<1> DEFINE new  == NewWrites(r, n)
           what == [i \in 1..n |-> <<list[i], live[list[i]]>>]
<1>3. /\ \A i \in DOMAIN saved : saved[i] # r
      /\ saved' = Append(saved, r) /\ saved \in Seq(Rooms)
      /\ UNCHANGED <<answers, rpc, db, report>>
  BY <1>2 DEF SaveList, rpcVars, TypeInv, TypeOK
<1>4. \E i \in DOMAIN saved' : saved'[i] = r
  <2>1. Len(saved) + 1 \in DOMAIN saved' /\ saved'[Len(saved) + 1] = r
    BY <1>3
  <2> QED
    BY <2>1
<1>5. \A w \in Writes : Room(w) = r => status[w] = "none"
  BY <1>3 DEF TypeInv, CalledInv
<1>6. \A w \in Writes : w \in new <=> w[1] = r /\ w[2] <= n
  BY DEF NewWrites
<1>7. /\ \A w \in Writes : w \notin new => status'[w] = status[w] /\ key'[w] = key[w]
      /\ \A w \in Writes : w \in new => status'[w] \in {"wait", "refused"}
  BY <1>2 DEF SaveList, Accepted, TypeInv, TypeOK
<1>8. what \in [1..n -> Users \X Data]
  BY DEF TypeInv, TypeOK
<1>9. key' = [w \in Writes |-> IF w[1] = r /\ w[2] <= n THEN what[w[2]] ELSE key[w]]
  <2>1. key' = [w \in Writes |-> IF w \in new THEN NewKey(list, w) ELSE key[w]]
    BY <1>2 DEF SaveList
  <2>2. ASSUME NEW w \in Writes, w[1] = r, w[2] <= n PROVE NewKey(list, w) = what[w[2]]
    <3>1. w[2] \in 1..n
      BY <2>2
    <3> QED
      BY <3>1 DEF NewKey
  <2> QED
    BY <1>6, <2>1, <2>2
<1>10. \A w \in Writes : Started(w)' <=> Started(w)
  BY <1>5, <1>6, <1>7 DEF Started
<1>11. /\ \A w \in Writes : w[1] = r /\ ~ w[2] <= n => status'[w] = "none"
       /\ \A w \in Writes : w[1] = r /\ w[2] <= n => status'[w] \in {"wait", "refused"}
  BY <1>5, <1>6, <1>7
<1>12. \E f \in [1..n -> Users \X Data] :
         key' = [w \in Writes |-> IF w[1] = r /\ w[2] <= n THEN f[w[2]] ELSE key[w]]
  <2> HIDE DEF what
  <2> QED
    BY <1>8, <1>9
<1>13. \A w \in Writes : Room(w) # r => status'[w] = status[w] /\ key'[w] = key[w]
  BY <1>6, <1>7
<1> QED
  BY <1>3, <1>4, <1>5, <1>10, <1>11, <1>12, <1>13

\* A key is no empty sequence.
LEMMA KeyNotEmpty == \A k \in Users \X Data : k # << >>
OBVIOUS

-----------------------------------------------------------------------------
(* A write has a key exactly when it was called.                           *)

KeyInv == \A w \in Writes : status[w] = "none" <=> key[w] = << >>

LEMMA KeyInvInit == Init => KeyInv
BY DEF Init, KeyInv

LEMMA KeyInvStep ==
  ASSUME TypeInv, TypeInv', KeyInv, [Next]_vars
  PROVE  KeyInv'
<1>1. ASSUME NEW r \in Rooms, SaveRoom(r) PROVE KeyInv'
  <2>1. \A w \in Writes : Room(w) # r => status'[w] = status[w] /\ key'[w] = key[w]
    BY <1>1, SaveRoomKeys
  <2>2. \A w \in Writes : Room(w) = r => key[w] = << >>
    BY <1>1, SaveRoomKeys DEF KeyInv
  <2>3. PICK n \in 1..MaxList : \E what \in [1..n -> Users \X Data] :
          /\ key' = [w \in Writes |-> IF w[1] = r /\ w[2] <= n THEN what[w[2]] ELSE key[w]]
          /\ \A w \in Writes : w[1] = r /\ ~ w[2] <= n => status'[w] = "none"
          /\ \A w \in Writes : w[1] = r /\ w[2] <= n => status'[w] \in {"wait", "refused"}
    BY <1>1, SaveRoomKeys
  <2>4. \A w \in Writes : w[1] = r /\ ~ w[2] <= n => status'[w] = "none" /\ key'[w] = << >>
    BY <2>2, <2>3
  <2>5. \A w \in Writes : w[1] = r /\ w[2] <= n => status'[w] # "none" /\ key'[w] # << >>
    BY <2>3, KeyNotEmpty DEF TypeInv, TypeOK
  <2> QED
    BY <2>1, <2>4, <2>5 DEF KeyInv
<1>2. ASSUME UNCHANGED key,
             \A w \in Writes : status'[w] = "none" <=> status[w] = "none"
      PROVE KeyInv'
  BY <1>2 DEF KeyInv
<1>3. ASSUME NEW w \in Writes, WriteSettles(w) PROVE KeyInv'
  BY <1>2, <1>3 DEF WriteSettles, TypeInv, TypeOK
<1>4. ASSUME NEW m \in Messages, NEW w \in Writes, CollectVerified(m, w) PROVE KeyInv'
  BY <1>2, <1>4 DEF CollectVerified, TypeInv, TypeOK
<1>5. ASSUME NEW w \in Writes, NEW s \in Stores,
             \/ StoreApplies(w, s) \/ StoreRefuses(w, s)
             \/ StoreReplies(w, s) \/ ConnectionBreaks(w, s)
      PROVE KeyInv'
  BY <1>2, <1>5 DEF StoreApplies, StoreRefuses, StoreReplies, ConnectionBreaks, logicVars
<1>6. CASE \/ \E r \in Rooms : ReportRoom(r)
           \/ \E w \in Writes : RefuseReentry(w) \/ Timer(w)
           \/ \E m \in Messages : RequestArrives(m) \/ LoseMessage(m) \/ IgnoreVerified(m)
           \/ \E s \in Sups : VerificationJob(s)
           \/ \E u \in Users, d \in Data : GameChanges(u, d)
           \/ UNCHANGED vars
  BY <1>2, <1>6 DEF ReportRoom, RefuseReentry, Timer, RequestArrives, LoseMessage,
                    IgnoreVerified, VerificationJob, GameChanges, vars, logicVars
<1> QED
  BY <1>1, <1>3, <1>4, <1>5, <1>6 DEF Next

-----------------------------------------------------------------------------
(* The refinement.                                                         *)

\* What the mapping maps to.
LEMMA MappingKept ==
  /\ UNCHANGED status => UNCHANGED SentWrites
  /\ UNCHANGED rpc => UNCHANGED AppliedAt
  /\ UNCHANGED report => UNCHANGED OverRooms
BY DEF SentWrites, Started, AppliedAt, Applied, OverRooms

LEMMA InitRefines == Init => Save!Init
<1> SUFFICES ASSUME Init PROVE Save!Init
  OBVIOUS
<1>1. SentWrites = {}
  BY DEF Init, SentWrites, Started
<1>2. AppliedAt = [w \in Save!Writes |-> {}]
  BY DEF Init, AppliedAt, Applied, Save!Writes
<1>3. OverRooms = {}
  BY DEF Init, OverRooms
<1> QED
  BY <1>1, <1>2, <1>3 DEF Init, Save!Init, Save!Writes

\* The start of a room's writes asks for them.
LEMMA SaveRoomRefines ==
  ASSUME NEW r \in Rooms, TypeInv, KeyInv, SaveRoom(r)
  PROVE  Save!Ask(r)
<1>1. Save!Asked(r) = {}
  BY SaveRoomKeys DEF KeyInv, Save!Asked, Save!Writes
<1>2. UNCHANGED <<answers, SentWrites, AppliedAt, db, OverRooms>>
  <2>1. UNCHANGED <<answers, rpc, db, report>> /\ \A w \in Writes : Started(w)' <=> Started(w)
    BY SaveRoomKeys
  <2>2. UNCHANGED SentWrites
    BY <2>1 DEF SentWrites
  <2> QED
    BY <2>1, <2>2, MappingKept
<1>3. \E n \in 1..MaxList : \E what \in [1..n -> Users \X Data] :
        key' = [w \in Writes |-> IF w[1] = r /\ w[2] <= n THEN what[w[2]] ELSE key[w]]
  <2>1. PICK n \in 1..MaxList : \E what \in [1..n -> Users \X Data] :
          /\ key' = [w \in Writes |-> IF w[1] = r /\ w[2] <= n THEN what[w[2]] ELSE key[w]]
          /\ \A w \in Writes : w[1] = r /\ ~ w[2] <= n => status'[w] = "none"
          /\ \A w \in Writes : w[1] = r /\ w[2] <= n => status'[w] \in {"wait", "refused"}
    BY SaveRoomKeys
  <2> QED
    BY <2>1
<1> QED
  BY <1>1, <1>2, <1>3 DEF Save!Ask, Save!Writes

\* A callback that is called ends the write, when its answer is allowed.
LEMMA CallbackEnds ==
  ASSUME TypeInv, AnswersInv, KeyInv, NEW w \in Writes, NEW a \in Answers,
         Callback(w, a), answers[w] = << >>, status[w] # "none", Save!MayAnswer(w, a),
         UNCHANGED <<key, SentWrites, AppliedAt, db, OverRooms>>
  PROVE  Save!Next
<1>1. answers' = [answers EXCEPT ![w] = <<a>>]
  BY FirstCallback DEF TypeInv
<1>2. Save!Open(w)
  BY DEF Save!Open, KeyInv
<1>3. Save!End(w, a)
  BY <1>1, <1>2 DEF Save!End
<1> QED
  BY <1>3 DEF Save!Next, Save!Writes

LEMMA CallbackStepRefines ==
  ASSUME TypeInv, AnswersInv, KeyInv, NEW w \in Writes,
         RefuseReentry(w) \/ Timer(w) \/ WriteSettles(w)
  PROVE  Save!Next \/ UNCHANGED Save!vars
<1>1. UNCHANGED <<key, AppliedAt, db, OverRooms>>
  BY MappingKept DEF RefuseReentry, Timer, WriteSettles, rpcVars
<1>2. CASE RefuseReentry(w)
  <2>1. /\ status[w] = "refused" /\ answers[w] = << >> /\ Callback(w, "reentry")
        /\ UNCHANGED status
    BY <1>2 DEF RefuseReentry
  <2>2. Save!MayAnswer(w, "reentry")
    BY <2>1 DEF Save!MayAnswer, SentWrites, Started
  <2> QED
    BY <1>1, <2>1, <2>2, CallbackEnds, MappingKept
<1>3. CASE Timer(w)
  <2>1. UNCHANGED status /\ UNCHANGED SentWrites
    BY <1>3, MappingKept DEF Timer
  <2>2. ASSUME NEW v \in pending, TimesOut(v), Callback(v, "timeout") PROVE Save!Next
    <3>1. v \in Writes /\ status[v] = "wait" /\ answers[v] = << >>
      BY <2>2 DEF TimesOut, AnswersInv, TypeInv, TypeOK
    <3>2. Save!MayAnswer(v, "timeout")
      BY <3>1 DEF Save!MayAnswer, SentWrites, Started
    <3> QED
      BY <1>1, <2>1, <2>2, <3>1, <3>2, CallbackEnds
  <2>3. CASE UNCHANGED answers
    BY <1>1, <2>1, <2>3 DEF Save!vars
  <2> QED
    BY <1>3, <2>2, <2>3 DEF Timer
<1>4. CASE WriteSettles(w)
  <2>1. /\ status[w] = "writing" /\ status' = [status EXCEPT ![w] = "settled"]
        /\ Callback(w, IF EnoughReplies(w) THEN "ok" ELSE "failed")
    BY <1>4 DEF WriteSettles
  <2>2. answers[w] = << >> /\ w \in SentWrites
    BY <2>1 DEF AnswersInv, SentWrites, Started
  <2>3. UNCHANGED SentWrites
    BY <2>1 DEF SentWrites, Started, TypeInv, TypeOK
  <2>4. CASE EnoughReplies(w)
    <3>1. AppliedAt[w] \in MoreThanTwoThirds
      <4>1. Fulfilled(w) \subseteq Applied(w) /\ Applied(w) \subseteq Stores
        BY DEF Fulfilled, Applied
      <4>2. /\ Cardinality(Fulfilled(w)) <= Cardinality(Applied(w))
            /\ Cardinality(Fulfilled(w)) \in Nat /\ Cardinality(Applied(w)) \in Nat
            /\ Cardinality(Stores) \in Nat
        BY <4>1, ConstantsAssumption, FS_Subset, FS_CardinalityType
      <4>3. AppliedAt[w] = Applied(w)
        BY DEF AppliedAt
      <4> QED
        BY <2>4, <4>1, <4>2, <4>3 DEF EnoughReplies, Consensus, MoreThanTwoThirds
    <3>2. Save!MayAnswer(w, "ok")
      BY <2>2, <3>1 DEF Save!MayAnswer
    <3> QED
      BY <1>1, <2>1, <2>2, <2>3, <2>4, <3>2, CallbackEnds
  <2>5. CASE ~EnoughReplies(w)
    <3>1. Save!MayAnswer(w, "failed")
      BY <2>2 DEF Save!MayAnswer
    <3> QED
      BY <1>1, <2>1, <2>2, <2>3, <2>5, <3>1, CallbackEnds
  <2> QED
    BY <2>4, <2>5
<1> QED
  BY <1>2, <1>3, <1>4

\* A signature has its write sent when it is the last one needed.
LEMMA CollectRefines ==
  ASSUME TypeInv, AnswersInv, KeyInv, NEW m \in Messages, NEW w \in Writes,
         CollectVerified(m, w)
  PROVE  Save!Next \/ UNCHANGED Save!vars
<1>1. /\ w \in pending
      /\ UNCHANGED <<key, answers, db, report>> /\ UNCHANGED OverRooms
  BY MappingKept DEF CollectVerified, Finds
<1>2. CASE UNCHANGED <<status, rpc>>
  BY <1>1, <1>2, MappingKept DEF Save!vars
<1>3. CASE /\ status[w] = "wait"
           /\ status' = [status EXCEPT ![w] = "writing"]
           /\ rpc' = [rpc EXCEPT ![w] = [s \in Stores |-> "sent"]]
  <2>1. Save!Open(w)
    BY <1>1, <1>3 DEF Save!Open, AnswersInv, KeyInv
  <2>2. w \notin SentWrites /\ SentWrites' = SentWrites \cup {w}
    BY <1>3 DEF SentWrites, Started, TypeInv, TypeOK
  <2>3. \A v \in Writes : Applied(v)' = Applied(v)
    <3>1. \A s \in Stores : rpc[w][s] = "none"
      BY <1>3 DEF AnswersInv, Started
    <3>2. rpc'[w] = [s \in Stores |-> "sent"] /\ \A v \in Writes \ {w} : rpc'[v] = rpc[v]
      BY <1>3 DEF TypeInv, TypeOK
    <3> QED
      BY <3>1, <3>2 DEF Applied
  <2>4. UNCHANGED AppliedAt
    BY <2>3 DEF AppliedAt
  <2>5. Save!Send(w)
    BY <1>1, <2>1, <2>2, <2>4 DEF Save!Send
  <2> QED
    BY <2>5 DEF Save!Next, Save!Writes
<1> QED
  BY <1>2, <1>3 DEF CollectVerified

\* A storage node that puts a datum puts the one the write was called with.
LEMMA StoreStepRefines ==
  ASSUME TypeInv, AnswersInv, NEW w \in Writes, NEW s \in Stores,
         \/ StoreApplies(w, s) \/ StoreRefuses(w, s)
         \/ StoreReplies(w, s) \/ ConnectionBreaks(w, s)
  PROVE  Save!Next \/ UNCHANGED Save!vars
<1>1. UNCHANGED <<key, answers, SentWrites, OverRooms>>
  BY MappingKept
     DEF StoreApplies, StoreRefuses, StoreReplies, ConnectionBreaks, logicVars
<1>2. CASE StoreApplies(w, s)
  <2>1. /\ rpc[w][s] \in {"sent", "orphan"} /\ rpcData[w] = key[w][2]
        /\ db' = [db EXCEPT ![s][key[w][1]] = key[w][2]]
        /\ \E x \in {"applied", "stray"} : rpc' = [rpc EXCEPT ![w][s] = x]
    BY <1>2 DEF StoreApplies, SignaturesMatch, User, Digest
  <2>2. w \in SentWrites
    BY <2>1 DEF AnswersInv, SentWrites
  <2>3. s \notin Applied(w) /\ Applied(w)' = Applied(w) \cup {s}
    BY <2>1 DEF Applied, TypeInv, TypeOK
  <2>4. \A v \in Writes \ {w} : Applied(v)' = Applied(v)
    BY <2>1 DEF Applied, TypeInv, TypeOK
  <2>5. /\ s \notin AppliedAt[w]
        /\ AppliedAt' = [AppliedAt EXCEPT ![w] = AppliedAt[w] \cup {s}]
    BY <2>3, <2>4 DEF AppliedAt
  <2>6. Save!Apply(w, s)
    BY <1>1, <2>1, <2>2, <2>5 DEF Save!Apply
  <2> QED
    BY <2>6 DEF Save!Next, Save!Writes
<1>3. CASE StoreRefuses(w, s) \/ StoreReplies(w, s) \/ ConnectionBreaks(w, s)
  <2>1. /\ UNCHANGED db
        /\ \/ rpc[w][s] \in {"sent", "orphan"} /\ rpc' = [rpc EXCEPT ![w][s] = "failed"]
           \/ rpc[w][s] = "applied" /\ rpc' = [rpc EXCEPT ![w][s] = "acked"]
           \/ rpc[w][s] = "sent" /\ rpc' = [rpc EXCEPT ![w][s] = "orphan"]
           \/ rpc[w][s] = "applied" /\ rpc' = [rpc EXCEPT ![w][s] = "stray"]
    BY <1>3 DEF StoreRefuses, StoreReplies, ConnectionBreaks
  <2>2. \A v \in Writes, t \in Stores :
          rpc'[v][t] \in {"applied", "acked", "stray"}
            <=> rpc[v][t] \in {"applied", "acked", "stray"}
    <3>1. rpc \in [Writes -> [Stores -> RpcStates]]
      BY DEF TypeInv, TypeOK
    <3>2. PICK x \in RpcStates :
            /\ rpc' = [rpc EXCEPT ![w][s] = x]
            /\ x \in {"applied", "acked", "stray"}
                 <=> rpc[w][s] \in {"applied", "acked", "stray"}
      BY <2>1
    <3>3. \A v \in Writes, t \in Stores :
            rpc'[v][t] = IF v = w /\ t = s THEN x ELSE rpc[v][t]
      BY <3>1, <3>2
    <3> QED
      BY <3>2, <3>3
  <2>3. UNCHANGED AppliedAt
    BY <2>2 DEF AppliedAt, Applied
  <2> QED
    BY <1>1, <2>1, <2>3 DEF Save!vars
<1> QED
  BY <1>2, <1>3

\* A room is reported over when all its writes have ended, one of them well.
LEMMA ReportRefines ==
  ASSUME TypeInv, AnswersInv, KeyInv, NEW r \in Rooms, ReportRoom(r)
  PROVE  Save!Next \/ UNCHANGED Save!vars
<1>1. PICK w \in Writes : FirstOk(r, w) /\ report' = [report EXCEPT ![r] = signers[w]]
  BY DEF ReportRoom
<1>2. /\ UNCHANGED <<key, answers, SentWrites, AppliedAt, db>>
      /\ report[r] = {} /\ Ended(r)
  BY MappingKept DEF ReportRoom, rpcVars
<1>3. CASE signers[w] = {}
  <2>1. UNCHANGED OverRooms
    BY <1>1, <1>2, <1>3 DEF OverRooms, TypeInv, TypeOK
  <2> QED
    BY <1>2, <2>1 DEF Save!vars
<1>4. CASE signers[w] # {}
  <2>1. OverRooms' = OverRooms \cup {r}
    BY <1>1, <1>4 DEF OverRooms, TypeInv, TypeOK
  <2>2. \A v \in Save!Asked(r) : ~Save!Open(v)
    BY <1>2 DEF Ended, KeyInv, Save!Asked, Save!Open, Save!Writes
  <2>3. w \in Save!Asked(r) /\ answers[w] = <<"ok">>
    <3>1. Room(w) = r /\ answers[w] # << >> /\ Head(answers[w]) = "ok"
      BY <1>1 DEF FirstOk
    <3>2. answers[w] \in Seq(Answers) /\ Len(answers[w]) <= 1
      BY DEF TypeInv, TypeOK, AnswersInv
    <3>3. answers[w] = <<"ok">>
      BY <3>1, <3>2
    <3>4. key[w] # << >>
      BY <3>1 DEF AnswersInv, KeyInv
    <3> QED
      BY <3>1, <3>3, <3>4 DEF Save!Asked, Save!Writes
  <2>4. Save!Report(r)
    BY <1>2, <2>1, <2>2, <2>3 DEF Save!Report
  <2> QED
    BY <2>4 DEF Save!Next
<1> QED
  BY <1>3, <1>4

\* Every step is a step of RoomSave, or changes nothing RoomSave speaks of.
LEMMA StepRefines ==
  ASSUME TypeInv, AnswersInv, KeyInv, [Next]_vars
  PROVE  Save!Next \/ UNCHANGED Save!vars
<1>1. ASSUME NEW r \in Rooms, SaveRoom(r) PROVE Save!Next
  BY <1>1, SaveRoomRefines DEF Save!Next
<1>2. ASSUME NEW r \in Rooms, ReportRoom(r) PROVE Save!Next \/ UNCHANGED Save!vars
  BY <1>2, ReportRefines
<1>3. ASSUME NEW w \in Writes, RefuseReentry(w) \/ Timer(w) \/ WriteSettles(w)
      PROVE Save!Next \/ UNCHANGED Save!vars
  BY <1>3, CallbackStepRefines
<1>4. ASSUME NEW m \in Messages, NEW w \in Writes, CollectVerified(m, w)
      PROVE Save!Next \/ UNCHANGED Save!vars
  BY <1>4, CollectRefines
<1>5. ASSUME NEW w \in Writes, NEW s \in Stores,
             \/ StoreApplies(w, s) \/ StoreRefuses(w, s)
             \/ StoreReplies(w, s) \/ ConnectionBreaks(w, s)
      PROVE Save!Next \/ UNCHANGED Save!vars
  BY <1>5, StoreStepRefines
<1>6. CASE \/ \E m \in Messages : RequestArrives(m) \/ LoseMessage(m) \/ IgnoreVerified(m)
           \/ \E s \in Sups : VerificationJob(s)
           \/ \E u \in Users, d \in Data : GameChanges(u, d)
           \/ UNCHANGED vars
  <2>1. UNCHANGED <<key, answers, status, rpc, db, report>>
    BY <1>6 DEF RequestArrives, LoseMessage, IgnoreVerified, VerificationJob,
                GameChanges, vars, logicVars, rpcVars
  <2> QED
    BY <2>1, MappingKept DEF Save!vars
<1> QED
  BY <1>1, <1>2, <1>3, <1>4, <1>5, <1>6 DEF Next

\* Saving a room with supervisors, signatures, keys, timers and RPCs is an
\* implementation of RoomSave (ImplementsRoomSave), for every size.
THEOREM RefinesRoomSave == Spec => ImplementsRoomSave
<1>1. Init => TypeInv /\ AnswersInv /\ KeyInv
  <2>1. Init => TypeInv
    BY ConstantsAssumption DEF Init, TypeInv, TypeOK, CalledInv
  <2>2. Init => AnswersInv
    BY DEF Init, AnswersInv, Answered
  <2> QED
    BY <2>1, <2>2, KeyInvInit
<1>2. TypeInv /\ AnswersInv /\ KeyInv /\ [Next]_vars => TypeInv' /\ AnswersInv' /\ KeyInv'
  BY TypeInvStep, AnswersInvStep, KeyInvStep
<1>3. TypeInv /\ AnswersInv /\ KeyInv /\ [Next]_vars => [Save!Next]_(Save!vars)
  BY StepRefines
<1> QED
  BY <1>1, <1>2, <1>3, InitRefines, PTL DEF Spec, ImplementsRoomSave, Save!Spec

-----------------------------------------------------------------------------
(* What a success, and the report of a room, say of the storage nodes.      *)

\* A storage node that has put a write's datum has it or a later one that was sent; a
\* write answered "ok" was put by enough storage nodes; and a room that was
\* reported over has only ended writes, one of them put by enough of them.
HoldsInv  == \A w \in Writes : \A s \in Applied(w) : Started(w) /\ Holds(s, w)
OkInv     == \A w \in Writes : Answered(w, "ok") => Cardinality(Applied(w)) > Consensus
ReportInv ==
  \A r \in Rooms : report[r] # {} =>
    /\ \E i \in DOMAIN saved : saved[i] = r
    /\ \A w \in Writes : Room(w) = r /\ status[w] # "none" => answers[w] # << >>
    /\ \E w \in Writes : Room(w) = r /\ Cardinality(Applied(w)) > Consensus

SavedInv == HoldsInv /\ OkInv /\ ReportInv

\* Stores are finitely many, so they can be counted.
LEMMA CountStores ==
  /\ Consensus \in Nat
  /\ \A S \in SUBSET Stores : Cardinality(S) \in Nat
  /\ \A S, T \in SUBSET Stores : S \subseteq T => Cardinality(S) <= Cardinality(T)
<1>1. \A S \in SUBSET Stores : IsFiniteSet(S) /\ Cardinality(S) \in Nat
  BY ConstantsAssumption, FS_Subset, FS_CardinalityType
<1>2. \A S, T \in SUBSET Stores : S \subseteq T => Cardinality(S) <= Cardinality(T)
  BY <1>1, FS_Subset
<1>3. Cardinality(Stores) \in Nat
  BY ConstantsAssumption, FS_CardinalityType
<1> QED
  BY <1>1, <1>2, <1>3 DEF Consensus

\* What has been put stays put; a write that has started stays started, with its key.
LEMMA AppliedGrows ==
  ASSUME TypeInv, AnswersInv, [Next]_vars, NEW w \in Writes
  PROVE  /\ Applied(w) \subseteq Applied(w)' /\ Applied(w)' \subseteq Stores
         /\ Started(w) => Started(w)' /\ key'[w] = key[w]
<1>1. ASSUME NEW r \in Rooms, SaveRoom(r)
      PROVE  UNCHANGED rpc /\ (Started(w) => Started(w)' /\ key'[w] = key[w])
  <2>1. Room(w) = r => ~Started(w)
    BY <1>1, SaveRoomKeys DEF Started
  <2> QED
    BY <1>1, <2>1, SaveRoomKeys DEF Started
<1>2. ASSUME NEW m \in Messages, NEW v \in Writes, CollectVerified(m, v)
      PROVE  /\ Applied(w) \subseteq Applied(w)'
             /\ Started(w) => Started(w)' /\ key'[w] = key[w]
  <2>1. UNCHANGED key
    BY <1>2 DEF CollectVerified
  <2>2. CASE UNCHANGED <<status, rpc>>
    BY <2>1, <2>2 DEF Applied, Started
  <2>3. CASE /\ status[v] = "wait"
             /\ status' = [status EXCEPT ![v] = "writing"]
             /\ rpc' = [rpc EXCEPT ![v] = [s \in Stores |-> "sent"]]
    <3>1. \A s \in Stores : rpc[v][s] = "none"
      BY <2>3 DEF AnswersInv, Started
    <3>2. \A u \in Writes \ {v} : rpc'[u] = rpc[u]
      BY <2>3 DEF TypeInv, TypeOK
    <3> QED
      BY <2>1, <2>3, <3>1, <3>2 DEF Applied, Started, TypeInv, TypeOK
  <2> QED
    BY <1>2, <2>2, <2>3 DEF CollectVerified
<1>3. ASSUME NEW v \in Writes, NEW s \in Stores,
             \/ StoreApplies(v, s) \/ StoreRefuses(v, s)
             \/ StoreReplies(v, s) \/ ConnectionBreaks(v, s)
      PROVE  /\ Applied(w) \subseteq Applied(w)'
             /\ Started(w) => Started(w)' /\ key'[w] = key[w]
  <2>1. UNCHANGED <<key, status>>
    BY <1>3 DEF StoreApplies, StoreRefuses, StoreReplies, ConnectionBreaks, logicVars
  <2>2. PICK x \in RpcStates :
          /\ rpc' = [rpc EXCEPT ![v][s] = x]
          /\ rpc[v][s] \in {"applied", "acked", "stray"} => x \in {"acked", "stray"}
    BY <1>3 DEF StoreApplies, StoreRefuses, StoreReplies, ConnectionBreaks
  <2>3. \A t \in Stores : rpc'[w][t] = IF w = v /\ t = s THEN x ELSE rpc[w][t]
    BY <2>2 DEF TypeInv, TypeOK
  <2> QED
    BY <2>1, <2>2, <2>3 DEF Applied, Started
<1>4. ASSUME NEW v \in Writes, WriteSettles(v)
      PROVE  UNCHANGED rpc /\ (Started(w) => Started(w)' /\ key'[w] = key[w])
  BY <1>4 DEF WriteSettles, rpcVars, Started, TypeInv, TypeOK
<1>5. CASE \/ \E r \in Rooms : ReportRoom(r)
           \/ \E v \in Writes : RefuseReentry(v) \/ Timer(v)
           \/ \E m \in Messages : RequestArrives(m) \/ LoseMessage(m) \/ IgnoreVerified(m)
           \/ \E s \in Sups : VerificationJob(s)
           \/ \E u \in Users, d \in Data : GameChanges(u, d)
           \/ UNCHANGED vars
  <2>1. UNCHANGED <<key, status, rpc>>
    BY <1>5 DEF ReportRoom, RefuseReentry, Timer, RequestArrives, LoseMessage,
                IgnoreVerified, VerificationJob, GameChanges, vars, logicVars, rpcVars
  <2> QED
    BY <2>1 DEF Applied, Started
<1>6. UNCHANGED rpc => Applied(w)' = Applied(w)
  BY DEF Applied
<1>7. /\ Applied(w) \subseteq Applied(w)'
      /\ Started(w) => Started(w)' /\ key'[w] = key[w]
  BY <1>1, <1>2, <1>3, <1>4, <1>5, <1>6 DEF Next
<1> QED
  BY <1>7 DEF Applied

\* The same, counted.
LEMMA EnoughStay ==
  ASSUME TypeInv, AnswersInv, [Next]_vars, NEW w \in Writes,
         Cardinality(Applied(w)) > Consensus
  PROVE  Cardinality(Applied(w))' > Consensus
<1>1. Applied(w) \subseteq Applied(w)' /\ Applied(w)' \subseteq Stores
  BY AppliedGrows
<1>2. Applied(w) \subseteq Stores
  BY DEF Applied
<1>3. /\ Cardinality(Applied(w)) <= Cardinality(Applied(w)')
      /\ Cardinality(Applied(w)) \in Nat /\ Cardinality(Applied(w)') \in Nat
  BY <1>1, <1>2, CountStores
<1> QED
  BY <1>3, CountStores

\* The inductive step: what a storage node has put is replaced only by another sent
\* datum of the same player.
LEMMA HoldsInvStep ==
  ASSUME TypeInv, AnswersInv, HoldsInv, [Next]_vars
  PROVE  HoldsInv'
<1> SUFFICES ASSUME NEW w \in Writes, NEW t \in Applied(w)' PROVE Started(w)' /\ Holds(t, w)'
  BY DEF HoldsInv
<1>1. ASSUME NEW v \in Writes, Started(v) PROVE Started(v)' /\ key'[v] = key[v]
  BY <1>1, AppliedGrows
<1>2. ASSUME t \in Applied(w), db'[t][User(w)] = db[t][User(w)]
      PROVE  Started(w)' /\ Holds(t, w)'
  <2>1. Started(w) /\ Holds(t, w)
    BY <1>2 DEF HoldsInv
  <2>2. User(w)' = User(w)
    BY <1>1, <2>1 DEF User
  <2>3. PICK v \in Writes : Started(v) /\ key[v] = <<User(w), db[t][User(w)]>>
    BY <2>1 DEF Holds
  <2> QED
    BY <1>1, <1>2, <2>1, <2>2, <2>3 DEF Holds
<1>3. ASSUME NEW v \in Writes, NEW s \in Stores, StoreApplies(v, s)
      PROVE  Started(w)' /\ Holds(t, w)'
  <2>1. /\ rpc[v][s] # "none" /\ rpcData[v] = Digest(v)
        /\ db' = [db EXCEPT ![s][User(v)] = rpcData[v]]
        /\ \E x \in {"applied", "stray"} : rpc' = [rpc EXCEPT ![v][s] = x]
        /\ UNCHANGED <<key, status>>
    BY <1>3 DEF StoreApplies, SignaturesMatch, logicVars
  <2>2. Started(v) /\ key[v] = <<User(v), Digest(v)>>
    BY <2>1 DEF AnswersInv, Started, User, Digest, TypeInv, TypeOK
  <2>3. CASE t = s /\ User(w) = User(v)
    <3>1. db'[t][User(w)] = Digest(v)
      <4>1. User(v) \in Users
        BY <2>2 DEF Started, User, TypeInv, TypeOK
      <4> QED
        BY <2>1, <2>3, <4>1 DEF TypeInv, TypeOK
    <3>2. Started(w)
      <4>1. w = v \/ t \in Applied(w)
        BY <2>1, <2>3 DEF Applied, TypeInv, TypeOK
      <4> QED
        BY <2>2, <4>1 DEF HoldsInv
    <3>3. key'[v] = <<User(w)', db'[t][User(w)']>>
      BY <2>1, <2>2, <2>3, <3>1 DEF User, Digest
    <3> QED
      BY <1>1, <2>2, <3>2, <3>3 DEF Holds
  <2>4. CASE ~(t = s /\ User(w) = User(v))
    <3>1. t \in Applied(w)
      <4>1. ~(w = v /\ t = s)
        BY <2>4
      <4> QED
        BY <2>1, <4>1 DEF Applied, TypeInv, TypeOK
    <3>2. db'[t][User(w)] = db[t][User(w)]
      <4>1. t \in Stores
        BY <3>1 DEF Applied
      <4> QED
        BY <2>1, <2>4, <4>1 DEF TypeInv, TypeOK
    <3> QED
      BY <1>2, <3>1, <3>2
  <2> QED
    BY <2>3, <2>4
<1>4. ASSUME NEW m \in Messages, NEW v \in Writes, CollectVerified(m, v)
      PROVE  t \in Applied(w) /\ UNCHANGED db
  <2>1. CASE UNCHANGED rpc
    BY <1>4, <2>1 DEF CollectVerified, Applied
  <2>2. CASE rpc' = [rpc EXCEPT ![v] = [s \in Stores |-> "sent"]]
    BY <1>4, <2>2 DEF CollectVerified, Applied, TypeInv, TypeOK
  <2> QED
    BY <1>4, <2>1, <2>2 DEF CollectVerified
<1>5. ASSUME NEW v \in Writes, NEW s \in Stores,
             StoreRefuses(v, s) \/ StoreReplies(v, s) \/ ConnectionBreaks(v, s)
      PROVE  t \in Applied(w) /\ UNCHANGED db
  <2>1. PICK x \in RpcStates :
          /\ rpc' = [rpc EXCEPT ![v][s] = x]
          /\ x \in {"applied", "acked", "stray"} => rpc[v][s] = "applied"
    BY <1>5 DEF StoreRefuses, StoreReplies, ConnectionBreaks
  <2>2. \A r \in Stores : rpc'[w][r] = IF w = v /\ r = s THEN x ELSE rpc[w][r]
    BY <2>1 DEF TypeInv, TypeOK
  <2> QED
    BY <1>5, <2>1, <2>2 DEF StoreRefuses, StoreReplies, ConnectionBreaks, Applied
<1>6. ASSUME NEW r \in Rooms, SaveRoom(r) PROVE t \in Applied(w) /\ UNCHANGED db
  BY <1>6, SaveRoomKeys DEF Applied
<1>7. CASE \/ \E r \in Rooms : ReportRoom(r)
           \/ \E v \in Writes : RefuseReentry(v) \/ Timer(v) \/ WriteSettles(v)
           \/ \E m \in Messages : RequestArrives(m) \/ LoseMessage(m) \/ IgnoreVerified(m)
           \/ \E s \in Sups : VerificationJob(s)
           \/ \E u \in Users, d \in Data : GameChanges(u, d)
           \/ UNCHANGED vars
  <2>1. UNCHANGED <<rpc, db>>
    BY <1>7 DEF ReportRoom, RefuseReentry, Timer, WriteSettles, RequestArrives,
                LoseMessage, IgnoreVerified, VerificationJob, GameChanges, vars, rpcVars
  <2>2. t \in Applied(w)
    BY <2>1 DEF Applied
  <2> QED
    BY <1>2, <2>1, <2>2
<1> QED
  BY <1>2, <1>3, <1>4, <1>5, <1>6, <1>7 DEF Next

\* An answer "ok" that was not there before is given with enough replies.
LEMMA NewOk ==
  ASSUME TypeInv, AnswersInv, [Next]_vars, NEW w \in Writes,
         ~Answered(w, "ok"), Answered(w, "ok")'
  PROVE  Cardinality(Applied(w)) > Consensus
<1>1. ASSUME NEW v \in Writes, NEW a \in Answers, Callback(v, a), answers[v] = << >>
      PROVE  v = w /\ a = "ok"
  BY <1>1, FirstCallback DEF TypeInv
<1>2. ~UNCHANGED answers
  BY SameAnswers
<1>3. ASSUME NEW v \in Writes, RefuseReentry(v) PROVE FALSE
  BY <1>1, <1>3 DEF RefuseReentry
<1>4. ASSUME NEW v \in Writes, Timer(v) PROVE FALSE
  <2>1. PICK u \in pending : Callback(u, "timeout")
    BY <1>2, <1>4 DEF Timer
  <2>2. u \in Writes /\ answers[u] = << >>
    BY DEF AnswersInv, TypeInv, TypeOK
  <2> QED
    BY <1>1, <2>1, <2>2
<1>5. ASSUME NEW v \in Writes, WriteSettles(v) PROVE Cardinality(Applied(w)) > Consensus
  <2>1. answers[v] = << >> /\ Callback(v, IF EnoughReplies(v) THEN "ok" ELSE "failed")
    BY <1>5 DEF WriteSettles, AnswersInv
  <2>2. v = w /\ EnoughReplies(w)
    BY <1>1, <2>1
  <2>3. Fulfilled(w) \subseteq Applied(w) /\ Applied(w) \subseteq Stores
    BY DEF Fulfilled, Applied
  <2>4. Cardinality(Fulfilled(w)) <= Cardinality(Applied(w))
    BY <2>3, CountStores
  <2>5. Cardinality(Fulfilled(w)) \in Nat /\ Cardinality(Applied(w)) \in Nat
    BY <2>3, CountStores
  <2> QED
    BY <2>2, <2>4, <2>5, CountStores DEF EnoughReplies
<1>6. ASSUME NEW r \in Rooms, SaveRoom(r) PROVE FALSE
  BY <1>2, <1>6, SaveRoomKeys
<1>7. CASE \/ \E r \in Rooms : ReportRoom(r)
           \/ \E m \in Messages : RequestArrives(m) \/ LoseMessage(m) \/ IgnoreVerified(m)
           \/ \E m \in Messages, v \in Writes : CollectVerified(m, v)
           \/ \E s \in Sups : VerificationJob(s)
           \/ \E v \in Writes, s \in Stores :
                \/ StoreApplies(v, s) \/ StoreRefuses(v, s)
                \/ StoreReplies(v, s) \/ ConnectionBreaks(v, s)
           \/ \E u \in Users, d \in Data : GameChanges(u, d)
           \/ UNCHANGED vars
  BY <1>2, <1>7 DEF ReportRoom, RequestArrives, LoseMessage, IgnoreVerified,
     CollectVerified, VerificationJob, StoreApplies, StoreRefuses, StoreReplies,
     ConnectionBreaks, GameChanges, vars, logicVars
<1> QED
  BY <1>3, <1>4, <1>5, <1>6, <1>7 DEF Next

LEMMA OkInvStep ==
  ASSUME TypeInv, AnswersInv, OkInv, [Next]_vars
  PROVE  OkInv'
<1> SUFFICES ASSUME NEW w \in Writes, Answered(w, "ok")'
             PROVE  (Cardinality(Applied(w)) > Consensus)'
  BY DEF OkInv
<1>1. Cardinality(Applied(w)) > Consensus
  BY NewOk DEF OkInv
<1>2. Cardinality(Applied(w))' > Consensus
  BY <1>1, EnoughStay
<1> QED
  BY <1>2 DEF Consensus

\* What ReportInv says of a room goes on while its writes are answered or uncalled
\* as before.
LEMMA ReportInvStep ==
  ASSUME TypeInv, AnswersInv, OkInv, ReportInv, [Next]_vars
  PROVE  ReportInv'
<1> DEFINE Over(r) == /\ \E i \in DOMAIN saved : saved[i] = r
                      /\ \A w \in Writes : Room(w) = r /\ status[w] # "none" => answers[w] # << >>
                      /\ \E w \in Writes : Room(w) = r /\ Cardinality(Applied(w)) > Consensus
<1>1. ASSUME NEW r \in Rooms, Over(r) PROVE Over(r)'
  <2>1. \E w \in Writes : Room(w) = r /\ (Cardinality(Applied(w)) > Consensus)'
    <3>1. PICK w \in Writes : Room(w) = r /\ Cardinality(Applied(w)) > Consensus
      BY <1>1
    <3>2. Cardinality(Applied(w))' > Consensus
      BY <3>1, EnoughStay
    <3> QED
      BY <3>1, <3>2 DEF Consensus
  <2>2. /\ \E i \in DOMAIN saved' : saved'[i] = r
        /\ \A w \in Writes : Room(w) = r /\ status'[w] # "none" => answers'[w] # << >>
    <3>1. ASSUME NEW q \in Rooms, SaveRoom(q)
          PROVE  /\ \E i \in DOMAIN saved' : saved'[i] = r
                 /\ \A w \in Writes :
                      Room(w) = r /\ status'[w] # "none" => answers'[w] # << >>
      <4>1. q # r
        BY <1>1, <3>1, SaveRoomKeys
      <4>2. \A w \in Writes : Room(w) = r => status'[w] = status[w]
        BY <3>1, <4>1, SaveRoomKeys
      <4>3. UNCHANGED answers
        BY <3>1, SaveRoomKeys
      <4>4. saved' = Append(saved, q) /\ saved \in Seq(Rooms)
        BY <3>1 DEF SaveRoom, SaveList, TypeInv, TypeOK
      <4>5. \A i \in DOMAIN saved : i \in DOMAIN saved' /\ saved'[i] = saved[i]
        BY <4>4
      <4> QED
        BY <1>1, <4>2, <4>3, <4>5
    <3>2. ASSUME UNCHANGED saved, \A w \in Writes : status'[w] # "none" => status[w] # "none",
                 \A w \in Writes : answers[w] # << >> => answers'[w] # << >>
          PROVE  /\ \E i \in DOMAIN saved' : saved'[i] = r
                 /\ \A w \in Writes :
                      Room(w) = r /\ status'[w] # "none" => answers'[w] # << >>
      BY <1>1, <3>2
    <3>3. ASSUME NEW v \in Writes, NEW a \in Answers, Callback(v, a)
          PROVE  \A w \in Writes : answers[w] # << >> => answers'[w] # << >>
      <4>1. answers[v] \in Seq(Answers) /\ answers' = [answers EXCEPT ![v] = Append(answers[v], a)]
        BY <3>3 DEF Callback, TypeInv, TypeOK
      <4>2. Append(answers[v], a) # << >>
        BY <4>1
      <4>3. answers \in [Writes -> Seq(Answers)]
        BY DEF TypeInv, TypeOK
      <4> QED
        BY <4>1, <4>2, <4>3
    <3>4. ASSUME NEW v \in Writes, RefuseReentry(v) \/ Timer(v) \/ WriteSettles(v)
          PROVE  \A w \in Writes : answers[w] # << >> => answers'[w] # << >>
      <4>1. CASE UNCHANGED answers
        BY <4>1
      <4>2. CASE \E u \in Writes, a \in Answers : Callback(u, a)
        BY <3>3, <4>2
      <4>3. pending \subseteq Writes
        BY DEF TypeInv, TypeOK
      <4> QED
        BY <3>4, <4>1, <4>2, <4>3 DEF RefuseReentry, Timer, WriteSettles
    <3>5. ASSUME NEW v \in Writes, RefuseReentry(v) \/ Timer(v) \/ WriteSettles(v)
          PROVE  UNCHANGED saved /\ \A w \in Writes : status'[w] # "none" => status[w] # "none"
      BY <3>5 DEF RefuseReentry, Timer, WriteSettles, TypeInv, TypeOK
    <3>6. ASSUME NEW m \in Messages, NEW v \in Writes, CollectVerified(m, v)
          PROVE  /\ UNCHANGED <<saved, answers>>
                 /\ \A w \in Writes : status'[w] # "none" => status[w] # "none"
      BY <3>6 DEF CollectVerified, TypeInv, TypeOK
    <3>7. CASE \/ \E q \in Rooms : ReportRoom(q)
               \/ \E m \in Messages : RequestArrives(m) \/ LoseMessage(m) \/ IgnoreVerified(m)
               \/ \E s \in Sups : VerificationJob(s)
               \/ \E v \in Writes, s \in Stores :
                    \/ StoreApplies(v, s) \/ StoreRefuses(v, s)
                    \/ StoreReplies(v, s) \/ ConnectionBreaks(v, s)
               \/ \E u \in Users, d \in Data : GameChanges(u, d)
               \/ UNCHANGED vars
      <4>1. UNCHANGED <<saved, answers, status>>
        BY <3>7 DEF ReportRoom, RequestArrives, LoseMessage, IgnoreVerified,
           VerificationJob, StoreApplies, StoreRefuses, StoreReplies,
           ConnectionBreaks, GameChanges, vars, logicVars
      <4> QED
        BY <3>2, <4>1
    <3> QED
      BY <3>1, <3>2, <3>4, <3>5, <3>6, <3>7 DEF Next
  <2> QED
    BY <2>1, <2>2
<1>2. ASSUME NEW r \in Rooms, ReportRoom(r) PROVE Over(r) /\ report' \in [Rooms -> SUBSET Messages]
             /\ \A q \in Rooms \ {r} : report'[q] = report[q]
  <2>1. PICK w \in Writes : FirstOk(r, w) /\ report' = [report EXCEPT ![r] = signers[w]]
    BY <1>2 DEF ReportRoom
  <2>2. Room(w) = r /\ Answered(w, "ok")
    <3>1. Room(w) = r /\ answers[w] # << >> /\ Head(answers[w]) = "ok"
      BY <2>1 DEF FirstOk
    <3>2. answers[w] \in Seq(Answers)
      BY DEF TypeInv, TypeOK
    <3>3. 1 \in DOMAIN answers[w] /\ answers[w][1] = "ok"
      BY <3>1, <3>2
    <3> QED
      BY <3>1, <3>3 DEF Answered
  <2> QED
    BY <1>2, <2>1, <2>2 DEF ReportRoom, Ended, OkInv, TypeInv, TypeOK
<1>3. CASE UNCHANGED report
  <2> HIDE DEF Over
  <2>1. \A r \in Rooms : report[r] # {} => Over(r)
    BY DEF Over, ReportInv
  <2>2. \A r \in Rooms : report'[r] # {} => Over(r)'
    BY <1>1, <1>3, <2>1
  <2> QED
    BY <2>2 DEF Over, ReportInv
<1>4. ASSUME NEW r \in Rooms, ReportRoom(r) PROVE ReportInv'
  <2> HIDE DEF Over
  <2>1. \A q \in Rooms : report[q] # {} => Over(q)
    BY DEF Over, ReportInv
  <2>2. \A q \in Rooms : report'[q] # {} => Over(q)
    BY <1>2, <1>4, <2>1
  <2>3. \A q \in Rooms : report'[q] # {} => Over(q)'
    BY <1>1, <2>2
  <2> QED
    BY <2>3 DEF Over, ReportInv
<1>5. (\E r \in Rooms : ReportRoom(r)) \/ UNCHANGED report
  <2>1. ASSUME NEW r \in Rooms, SaveRoom(r) PROVE UNCHANGED report
    BY <2>1, SaveRoomKeys
  <2>2. CASE \/ \E w \in Writes : RefuseReentry(w) \/ Timer(w) \/ WriteSettles(w)
             \/ \E m \in Messages : RequestArrives(m) \/ LoseMessage(m) \/ IgnoreVerified(m)
             \/ \E m \in Messages, v \in Writes : CollectVerified(m, v)
             \/ \E s \in Sups : VerificationJob(s)
             \/ \E v \in Writes, s \in Stores :
                  \/ StoreApplies(v, s) \/ StoreRefuses(v, s)
                  \/ StoreReplies(v, s) \/ ConnectionBreaks(v, s)
             \/ \E u \in Users, d \in Data : GameChanges(u, d)
             \/ UNCHANGED vars
    BY <2>2 DEF RefuseReentry, Timer, WriteSettles, RequestArrives, LoseMessage,
       IgnoreVerified, CollectVerified, VerificationJob, StoreApplies, StoreRefuses,
       StoreReplies, ConnectionBreaks, GameChanges, vars, logicVars
  <2> QED
    BY <2>1, <2>2 DEF Next
<1> QED
  BY <1>3, <1>4, <1>5

\* All the invariants of a save hold in every behaviour.
LEMMA SavedInvariant == Spec => [](TypeInv /\ AnswersInv /\ SavedInv)
<1>1. Init => TypeInv /\ AnswersInv
  BY ConstantsAssumption DEF Init, TypeInv, TypeOK, CalledInv, AnswersInv, Answered
<1>2. Init => SavedInv
  BY DEF Init, SavedInv, HoldsInv, OkInv, ReportInv, Applied, Answered
<1>3. TypeInv /\ AnswersInv /\ SavedInv /\ [Next]_vars => TypeInv' /\ AnswersInv' /\ SavedInv'
  BY TypeInvStep, AnswersInvStep, HoldsInvStep, OkInvStep, ReportInvStep DEF SavedInv
<1> QED
  BY <1>1, <1>2, <1>3, PTL DEF Spec

\* When a write was answered "ok", more than two thirds of the storage nodes have its
\* datum or a later one that was sent of the player (SuccessIsDurable), for any number of
\* storage nodes.
THEOREM SuccessDurable == Spec => []SuccessIsDurable
<1>1. ASSUME SavedInv PROVE SuccessIsDurable
  <2> SUFFICES ASSUME NEW w \in Writes, Answered(w, "ok")
               PROVE  Cardinality({s \in Stores : Holds(s, w)}) > Consensus
    BY DEF SuccessIsDurable
  <2> DEFINE H == {s \in Stores : Holds(s, w)}
  <2>1. Applied(w) \subseteq H /\ H \subseteq Stores /\ Applied(w) \subseteq Stores
    BY <1>1 DEF SavedInv, HoldsInv, Applied
  <2>2. Cardinality(Applied(w)) > Consensus
    BY <1>1 DEF SavedInv, OkInv
  <2> HIDE DEF H
  <2>3. Cardinality(H) > Consensus
    BY <2>1, <2>2, CountStores
  <2> QED
    BY <2>3 DEF H
<1> QED
  BY <1>1, SavedInvariant, PTL

\* A room is reported over only when its writes have ended and one player's datum
\* was put by more than two thirds of the storage nodes (ReportedIsSaved).
THEOREM ReportedSaved == Spec => []ReportedIsSaved
<1>1. SavedInv => ReportedIsSaved
  BY DEF SavedInv, ReportInv, ReportedIsSaved
<1> QED
  BY <1>1, SavedInvariant, PTL

-----------------------------------------------------------------------------
(* The signatures a write is sent with, and those a room is reported with. *)

\* Only writes that asked have messages and signatures; in one room they have keys of
\* their own; and a started write has enough signatures, counted against its own room,
\* unless another room saves the same datum.
AskedInv ==
  /\ \A m \in asked \cup queued \cup signed : Asks(m[1])
  /\ \A w \in Writes : \A m \in signers[w] : Asks(m[1]) /\ Asks(w)

OwnKeyInv == \A v, w \in Writes :
  Room(v) = Room(w) /\ Asks(v) /\ Asks(w) /\ key[v] = key[w] => v = w

OwnQuorumInv == \A w \in Writes :
  Started(w) => Shared(key[w]) \/ Cardinality(signers[w]) > Threshold(Room(w))

\* A report holds the signatures of one write of the room, enough of them.
ReportedInv == \A r \in Rooms : report[r] # {} =>
  \/ Contested(r)
  \/ \E w \in Writes : /\ Room(w) = r /\ Cardinality(report[r]) > Threshold(r)
                       /\ \A m \in report[r] : m[1] = w

OwnInv == AskedInv /\ OwnKeyInv /\ OwnQuorumInv /\ ReportedInv

\* What two rooms save they go on to have saved.
LEMMA SharedKept ==
  ASSUME \A w \in Writes : Asks(w) => Asks(w)' /\ key'[w] = key[w]
  PROVE  /\ \A k : Shared(k) => Shared(k)'
         /\ \A w \in Writes : Asks(w) /\ Shared(key[w]) => Shared(key[w])'
         /\ \A r \in Rooms : Contested(r) => Contested(r)'
<1>1. ASSUME NEW k, Shared(k) PROVE Shared(k)'
  BY <1>1 DEF Shared
<1>2. ASSUME NEW w \in Writes, Asks(w), Shared(key[w]) PROVE Shared(key[w])'
  <2>1. PICK u, v \in Writes : /\ Asks(u) /\ key[u] = key[w]
                              /\ Asks(v) /\ key[v] = key[w]
                              /\ Room(u) # Room(v)
    BY <1>2 DEF Shared
  <2> QED
    BY <1>2, <2>1 DEF Shared
<1>3. ASSUME NEW r \in Rooms, Contested(r) PROVE Contested(r)'
  BY <1>2, <1>3 DEF Contested
<1> QED
  BY <1>1, <1>2, <1>3

\* Signatures for one write are of as many supervisors.
LEMMA OneEach ==
  ASSUME NEW S \in SUBSET Messages, NEW w, \A m \in S : m[1] = w
  PROVE  Cardinality({m[2] : m \in S}) = Cardinality(S)
<1> DEFINE sups == {m[2] : m \in S}
           signer == [m \in S |-> m[2]]
<1>1. \A l, m \in S : l[2] = m[2] => l = m
  OBVIOUS
<1>2. signer \in Bijection(S, sups)
  <2>1. signer \in [S -> sups] /\ \A m \in S : signer[m] = m[2]
    OBVIOUS
  <2>2. \A s \in sups : \E m \in S : signer[m] = s
    BY <2>1
  <2> HIDE DEF sups, signer
  <2>3. \A l, m \in S : signer[l] = signer[m] => l = m
    BY <1>1, <2>1
  <2> QED
    BY <2>1, <2>2, <2>3, Fun_IsBij
<1>3. IsFiniteSet(S)
  BY CountSignatures
<1> HIDE DEF sups, signer
<1>4. Cardinality(sups) = Cardinality(S)
  BY <1>2, <1>3, FS_Bijection DEF ExistsBijection
<1> QED
  BY <1>4 DEF sups

\* The messages, signatures and reports are those of before, and so are the writes
\* that asked and that were started.
LEMMA OwnKept ==
  ASSUME OwnInv, UNCHANGED <<key, signers, report>>,
         \A w \in Writes : Asks(w)' <=> Asks(w),
         \A w \in Writes : Started(w)' <=> Started(w),
         TypeInv, asked' \cup queued' \cup signed' \subseteq asked \cup queued \cup signed
  PROVE  OwnInv'
<1>1. AskedInv'
  <2>1. \A m \in asked \cup queued \cup signed : m[1] \in Writes
    BY DEF TypeInv, TypeOK
  <2>2. \A w \in Writes : \A m \in signers[w] : m[1] \in Writes
    BY DEF TypeInv, TypeOK
  <2> QED
    BY <2>1, <2>2 DEF OwnInv, AskedInv
<1>2. OwnKeyInv'
  BY DEF OwnInv, OwnKeyInv
<1>3. /\ \A k : Shared(k) => Shared(k)'
      /\ \A r \in Rooms : Contested(r) => Contested(r)'
  BY SharedKept
<1>4. OwnQuorumInv' /\ ReportedInv'
  BY <1>3 DEF OwnInv, OwnQuorumInv, ReportedInv, Threshold
<1> QED
  BY <1>1, <1>2, <1>4 DEF OwnInv

\* The writes a room starts have keys of their own, and no signatures.
LEMMA SaveRoomOwn ==
  ASSUME NEW r \in Rooms, TypeInv, OwnInv, SaveRoom(r)
  PROVE  OwnInv'
<1>1. PICK n \in 1..MaxList : \E list \in [1..n -> Users] : SaveList(r, n, list)
  BY DEF SaveRoom
<1>2. PICK list \in [1..n -> Users] : SaveList(r, n, list)
  BY <1>1
<1> DEFINE acc == Accepted(r, n, list)
<1>3. /\ acc \subseteq NewWrites(r, n)
      /\ \A v, w \in acc : NewKey(list, v) = NewKey(list, w) => v = w
  BY NewWritesType DEF TypeInv
<1>4. /\ \A w \in Writes : Room(w) = r => status[w] = "none"
      /\ \A w \in Writes : Room(w) # r => status'[w] = status[w] /\ key'[w] = key[w]
      /\ \A w \in Writes : Started(w)' <=> Started(w)
      /\ UNCHANGED report
  BY SaveRoomKeys
<1>5. \A w \in Writes : Room(w) = r /\ Asks(w)' => w \in acc
  BY <1>2, <1>4 DEF SaveList, Asks, TypeInv, TypeOK
<1>6. \A w \in acc : w \in Writes /\ Room(w) = r /\ Asks(w)' /\ key'[w] = NewKey(list, w)
  BY <1>2, <1>3 DEF SaveList, Asks, NewWrites
<1>7. /\ asked' = asked \cup (acc \X RoomSups[r])
      /\ UNCHANGED <<queued, signed, signers>>
  BY <1>2 DEF SaveList
<1> HIDE DEF acc
<1>8. \A w \in Writes : Asks(w) => Asks(w)' /\ Room(w) # r
  BY <1>4 DEF Asks
<1>9. AskedInv'
  <2>1. \A m \in asked \cup queued \cup signed : m[1] \in Writes
    BY DEF TypeInv, TypeOK
  <2>2. \A w \in Writes : \A m \in signers[w] : m[1] \in Writes
    BY DEF TypeInv, TypeOK
  <2>3. \A m \in asked' \cup queued' \cup signed' : Asks(m[1])'
    BY <1>6, <1>7, <1>8, <2>1 DEF OwnInv, AskedInv
  <2>4. \A w \in Writes : \A m \in signers'[w] : Asks(m[1])' /\ Asks(w)'
    BY <1>7, <1>8, <2>2 DEF OwnInv, AskedInv
  <2> QED
    BY <2>3, <2>4 DEF AskedInv
<1>10. OwnKeyInv'
  <2> SUFFICES ASSUME NEW v \in Writes, NEW w \in Writes, Room(v) = Room(w),
                      Asks(v)', Asks(w)', key'[v] = key'[w]
               PROVE  v = w
    BY DEF OwnKeyInv
  <2>1. CASE Room(w) = r
    BY <1>3, <1>5, <1>6, <2>1 DEF acc
  <2>2. CASE Room(w) # r
    BY <1>4, <2>2 DEF OwnInv, OwnKeyInv, Asks
  <2> QED
    BY <2>1, <2>2
<1>11. \A w \in Writes : Asks(w) => Asks(w)' /\ key'[w] = key[w]
  BY <1>4, <1>8
<1>12. OwnQuorumInv'
  <2> SUFFICES ASSUME NEW w \in Writes, Started(w)'
               PROVE  Shared(key[w])' \/ Cardinality(signers[w]) > Threshold(Room(w))
    BY <1>7 DEF OwnQuorumInv, Threshold
  <2>1. Started(w) /\ Asks(w)
    BY <1>4 DEF Started, Asks
  <2>2. Shared(key[w]) => Shared(key[w])'
    BY <1>11, <2>1, SharedKept
  <2> QED
    BY <2>1, <2>2 DEF OwnInv, OwnQuorumInv
<1>13. ReportedInv'
  <2>1. \A q \in Rooms : Contested(q) => Contested(q)'
    BY <1>11, SharedKept
  <2> QED
    BY <1>4, <2>1 DEF OwnInv, ReportedInv, Threshold
<1> QED
  BY <1>9, <1>10, <1>12, <1>13 DEF OwnInv

\* A signature is counted against the supervisors of the room its message names:
\* that is the write's own room unless two rooms save the datum.
LEMMA CollectOwn ==
  ASSUME TypeInv, OwnInv, NEW m \in Messages, NEW w \in Writes,
         CollectVerified(m, w)
  PROVE  OwnInv'
<1>1. /\ m \in signed /\ w \in pending /\ key[w] = key[m[1]] /\ m[1] \in Writes
      /\ signers' = [signers EXCEPT ![w] = signers[w] \cup {m}]
      /\ signed' = signed \ {m}
      /\ UNCHANGED <<key, asked, queued, report>>
  BY DEF CollectVerified, Finds
<1>2. /\ signers'[w] = signers[w] \cup {m}
      /\ \A v \in Writes \ {w} : signers'[v] = signers[v]
  BY <1>1 DEF TypeInv, TypeOK
<1>3. Asks(m[1]) /\ Asks(w)
  BY <1>1 DEF OwnInv, AskedInv, Asks, TypeInv, CalledInv
<1>4. \/ UNCHANGED status
      \/ /\ Enough(signers[w] \cup {m}, Room(m[1])) /\ status[w] = "wait"
         /\ status' = [status EXCEPT ![w] = "writing"]
  BY DEF CollectVerified
<1>5. \A v \in Writes : Asks(v)' <=> Asks(v)
  BY <1>3, <1>4 DEF Asks, TypeInv, TypeOK
<1>6. AskedInv'
  <2>1. \A l \in asked \cup queued \cup signed : l[1] \in Writes
    BY DEF TypeInv, TypeOK
  <2>2. \A v \in Writes : \A l \in signers[v] : l[1] \in Writes
    BY DEF TypeInv, TypeOK
  <2>3. \A l \in asked' \cup queued' \cup signed' : Asks(l[1])'
    BY <1>1, <1>5, <2>1 DEF OwnInv, AskedInv
  <2>4. ASSUME NEW v \in Writes, NEW l \in signers'[v] PROVE Asks(l[1])' /\ Asks(v)'
    <3>1. l \in signers[v] \/ (l = m /\ v = w)
      BY <1>2
    <3> QED
      BY <1>1, <1>3, <1>5, <2>2, <3>1 DEF OwnInv, AskedInv
  <2> QED
    BY <2>3, <2>4 DEF AskedInv
<1>7. /\ \A k : Shared(k) => Shared(k)'
      /\ \A r \in Rooms : Contested(r) => Contested(r)'
  BY <1>1, <1>5, SharedKept
<1>8. OwnKeyInv' /\ ReportedInv'
  BY <1>1, <1>5, <1>7 DEF OwnInv, OwnKeyInv, ReportedInv, Threshold
<1>9. OwnQuorumInv'
  <2> SUFFICES ASSUME NEW v \in Writes, Started(v)', ~Shared(key[v])
               PROVE  Cardinality(signers'[v]) > Threshold(Room(v))
    BY <1>1, <1>7 DEF OwnQuorumInv, Threshold
  <2>1. CASE Started(v)
    <3>1. Cardinality(signers[v]) > Threshold(Room(v))
      BY <2>1 DEF OwnInv, OwnQuorumInv
    <3>2. signers[v] \in SUBSET Messages /\ signers'[v] \in SUBSET Messages
      BY <1>2 DEF TypeInv, TypeOK
    <3>3. signers[v] \subseteq signers'[v] /\ Room(v) \in Rooms
      BY <1>2
    <3>4. Cardinality(signers[v]) <= Cardinality(signers'[v])
      BY <3>2, <3>3, CountSignatures
    <3>5. /\ Cardinality(signers[v]) \in Nat /\ Cardinality(signers'[v]) \in Nat
          /\ Threshold(Room(v)) \in Nat
      BY <3>2, <3>3, CountSignatures
    <3> QED
      BY <3>1, <3>4, <3>5
  <2>2. CASE ~Started(v)
    <3>1. v = w /\ Enough(signers[w] \cup {m}, Room(m[1]))
      BY <1>4, <2>2 DEF Started, TypeInv, TypeOK
    <3>2. Room(m[1]) = Room(w)
      BY <1>1, <1>3, <3>1 DEF Shared
    <3> QED
      BY <1>2, <3>1, <3>2 DEF Enough
  <2> QED
    BY <2>1, <2>2
<1> QED
  BY <1>6, <1>8, <1>9 DEF OwnInv

\* Unless another room saves what a write saves, its signatures are its own.
LEMMA OwnSigners ==
  ASSUME TypeInv, SignersInv, OwnInv, NEW w \in Writes, ~Shared(key[w])
  PROVE  \A m \in signers[w] : m[1] = w
<1> SUFFICES ASSUME NEW m \in signers[w] PROVE m[1] = w
  OBVIOUS
<1>1. m[1] \in Writes
  BY DEF TypeInv, TypeOK
<1>2. Asks(m[1]) /\ Asks(w) /\ key[m[1]] = key[w]
  BY DEF OwnInv, AskedInv, SignersInv, Vouches
<1>3. Room(m[1]) = Room(w)
  BY <1>1, <1>2 DEF Shared
<1> QED
  BY <1>1, <1>2, <1>3 DEF OwnInv, OwnKeyInv

\* The write a room is reported over with was started: its signatures are its own.
LEMMA ReportOwn ==
  ASSUME NEW r \in Rooms, TypeInv, SavedInv, SignersInv, OwnInv, ReportRoom(r)
  PROVE  OwnInv'
<1>1. PICK w \in Writes : FirstOk(r, w) /\ report' = [report EXCEPT ![r] = signers[w]]
  BY DEF ReportRoom
<1>2. UNCHANGED <<key, status, signers, asked, queued, signed>>
  BY DEF ReportRoom, supVars
<1>3. Room(w) = r /\ Answered(w, "ok")
  <2>1. Room(w) = r /\ answers[w] # << >> /\ Head(answers[w]) = "ok"
    BY <1>1 DEF FirstOk
  <2>2. answers[w] \in Seq(Answers)
    BY DEF TypeInv, TypeOK
  <2>3. 1 \in DOMAIN answers[w] /\ answers[w][1] = "ok"
    BY <2>1, <2>2
  <2> QED
    BY <2>1, <2>3 DEF Answered
<1>4. Started(w)
  <2>1. Cardinality(Applied(w)) > Consensus
    BY <1>3 DEF SavedInv, OkInv
  <2>2. Applied(w) # {}
    BY <2>1, CountStores, FS_EmptySet
  <2> QED
    BY <2>2 DEF SavedInv, HoldsInv
<1>5. Asks(w) /\ (Shared(key[w]) \/ Cardinality(signers[w]) > Threshold(r))
  BY <1>3, <1>4 DEF OwnInv, OwnQuorumInv, Started, Asks
<1>6. ASSUME ~Shared(key[w]) PROVE \A m \in signers[w] : m[1] = w
  BY <1>6, OwnSigners
<1>7. report'[r] = signers[w] /\ \A q \in Rooms \ {r} : report'[q] = report[q]
  BY <1>1 DEF TypeInv, TypeOK
<1>8. /\ \A k : Shared(k) => Shared(k)'
      /\ \A q \in Rooms : Contested(q) => Contested(q)'
  BY <1>2, SharedKept DEF Asks
<1>9. ASSUME NEW q \in Rooms, report'[q] # {}
      PROVE  \/ Contested(q)'
             \/ \E v \in Writes : /\ Room(v) = q /\ Cardinality(report'[q]) > Threshold(q)
                                  /\ \A m \in report'[q] : m[1] = v
  <2>1. CASE q = r /\ Shared(key[w])
    BY <1>3, <1>5, <1>8, <2>1 DEF Contested
  <2>2. CASE q = r /\ ~Shared(key[w])
    BY <1>3, <1>5, <1>6, <1>7, <2>2
  <2>3. CASE q # r
    BY <1>7, <1>8, <1>9, <2>3 DEF OwnInv, ReportedInv
  <2> QED
    BY <2>1, <2>2, <2>3
<1>10. ReportedInv'
  BY <1>9 DEF ReportedInv, Threshold
<1>11. AskedInv' /\ OwnKeyInv'
  BY <1>2 DEF OwnInv, AskedInv, OwnKeyInv, Asks
<1>12. OwnQuorumInv'
  BY <1>2, <1>8 DEF OwnInv, OwnQuorumInv, Started, Threshold
<1> QED
  BY <1>10, <1>11, <1>12 DEF OwnInv

LEMMA OwnInvStep ==
  ASSUME TypeInv, TypeInv', ApprovalInv, SavedInv, OwnInv, [Next]_vars
  PROVE  OwnInv'
<1>1. ASSUME NEW r \in Rooms, SaveRoom(r) PROVE OwnInv'
  BY <1>1, SaveRoomOwn
<1>2. ASSUME NEW r \in Rooms, ReportRoom(r) PROVE OwnInv'
  BY <1>2, ReportOwn DEF ApprovalInv
<1>3. ASSUME NEW m \in Messages, NEW w \in Writes, CollectVerified(m, w) PROVE OwnInv'
  BY <1>3, CollectOwn
<1>4. ASSUME NEW w \in Writes, WriteSettles(w) PROVE OwnInv'
  <2>1. status' = [status EXCEPT ![w] = "settled"] /\ status[w] = "writing"
    BY <1>4 DEF WriteSettles
  <2>2. UNCHANGED <<key, signers, report, asked, queued, signed>>
    BY <1>4 DEF WriteSettles, supVars
  <2>3. \A v \in Writes : (Started(v)' <=> Started(v)) /\ (Asks(v)' <=> Asks(v))
    BY <2>1 DEF Started, Asks, TypeInv, TypeOK
  <2> QED
    BY <2>2, <2>3, OwnKept
<1>5. CASE \/ \E w \in Writes : RefuseReentry(w) \/ Timer(w)
           \/ \E m \in Messages : RequestArrives(m) \/ LoseMessage(m) \/ IgnoreVerified(m)
           \/ \E s \in Sups : VerificationJob(s)
           \/ \E w \in Writes, s \in Stores :
                \/ StoreApplies(w, s) \/ StoreRefuses(w, s)
                \/ StoreReplies(w, s) \/ ConnectionBreaks(w, s)
           \/ \E u \in Users, d \in Data : GameChanges(u, d)
           \/ UNCHANGED vars
  <2>1. UNCHANGED <<key, signers, report, status>>
    BY <1>5 DEF RefuseReentry, Timer, RequestArrives, LoseMessage, IgnoreVerified,
       VerificationJob, StoreApplies, StoreRefuses, StoreReplies, ConnectionBreaks,
       GameChanges, vars, logicVars
  <2>2. asked' \cup queued' \cup signed' \subseteq asked \cup queued \cup signed
    BY <1>5 DEF RefuseReentry, Timer, RequestArrives, LoseMessage, IgnoreVerified,
       VerificationJob, StoreApplies, StoreRefuses, StoreReplies, ConnectionBreaks,
       GameChanges, vars, supVars
  <2>3. \A w \in Writes : (Started(w)' <=> Started(w)) /\ (Asks(w)' <=> Asks(w))
    BY <2>1 DEF Started, Asks
  <2> QED
    BY <2>1, <2>2, <2>3, OwnKept
<1> QED
  BY <1>1, <1>2, <1>3, <1>4, <1>5 DEF Next

\* All the invariants of a save and of what supervisors sign hold together.
LEMMA AllInvariants == Spec => [](TypeInv /\ ApprovalInv /\ SavedInv /\ OwnInv)
<1>1. Init => TypeInv /\ AnswersInv
  BY ConstantsAssumption DEF Init, TypeInv, TypeOK, CalledInv, AnswersInv, Answered
<1>2. Init => ApprovalInv
  BY DEF Init, ApprovalInv, MessagesInv, SignersInv, SentInv
<1>3. Init => OwnInv
  BY DEF Init, OwnInv, AskedInv, OwnKeyInv, OwnQuorumInv, ReportedInv, Asks, Started
<1>4. TypeInv /\ TypeInv' /\ ApprovalInv /\ SavedInv /\ OwnInv /\ [Next]_vars => OwnInv'
  BY OwnInvStep
<1> QED
  BY <1>1, <1>2, <1>3, <1>4, TypeInvStep, AnswersInvStep, ApprovalInvStep, SavedInvariant,
     PTL DEF Spec

\* No storage node ever holds a datum that more than two thirds of the supervisors of
\* one room, counted as nodes, did not sign for that room, unless two rooms save the
\* datum (StoredIsApproved): the write it was sent with has only signatures for itself.
THEOREM StoredApproved == Spec => []StoredIsApproved
<1>1. ASSUME TypeInv, ApprovalInv, OwnInv PROVE StoredIsApproved
  <2> SUFFICES ASSUME NEW s \in Stores, NEW u \in Users, NEW d \in Data \ {InitData},
                      db[s][u] = d, ~Shared(<<u, d>>)
               PROVE  \E w \in Writes : key[w] = <<u, d>> /\ ApprovedWrite(w)
    BY DEF StoredIsApproved
  <2>1. PICK w \in Writes : Started(w) /\ key[w] = <<u, d>>
    BY <1>1 DEF ApprovalInv, SentInv, Sent
  <2>2. \A m \in signers[w] : m[1] = w /\ Vouches(m, w)
    BY <1>1, <2>1, OwnSigners DEF ApprovalInv, SignersInv
  <2>3. signers[w] \in SUBSET Messages
    BY <1>1 DEF TypeInv, TypeOK
  <2>4. Signatories(w) = {m[2] : m \in signers[w]}
    <3>1. {n \in signers[w] : Room(n[1]) = Room(w) /\ Vouches(n, w)} = signers[w]
      BY <2>2
    <3> QED
      BY <3>1 DEF Signatories
  <2>5. Cardinality(Signatories(w)) = Cardinality(signers[w])
    <3>1. \A m \in signers[w] : m[1] = w
      BY <2>2
    <3>2. Cardinality({m[2] : m \in signers[w]}) = Cardinality(signers[w])
      BY <2>3, <3>1, OneEach
    <3> QED
      BY <2>4, <3>2
  <2>6. Cardinality(signers[w]) > Threshold(Room(w))
    BY <1>1, <2>1 DEF OwnInv, OwnQuorumInv
  <2> QED
    BY <2>1, <2>5, <2>6 DEF ApprovedWrite
<1> QED
  BY <1>1, AllInvariants, PTL

\* A room is reported over with the signatures of more than two thirds of ITS supervisors
\* over ITS room hash, for any number of rooms, unless another room saves what one of its
\* writes saves (ReportIsRoomQuorum): onMessageDataVerified counts signatures against the
\* room the message names, and the entry it finds is then that of a write of this room.
THEOREM ReportQuorum == Spec => []ReportIsRoomQuorum
<1>1. ASSUME TypeInv, OwnInv PROVE ReportIsRoomQuorum
  <2> SUFFICES ASSUME NEW r \in Rooms, report[r] # {}, ~Contested(r)
               PROVE  Cardinality({m[2] : m \in {n \in report[r] : Room(n[1]) = r}})
                      > Threshold(r)
    BY DEF ReportIsRoomQuorum
  <2>1. PICK w \in Writes : /\ Room(w) = r /\ Cardinality(report[r]) > Threshold(r)
                            /\ \A m \in report[r] : m[1] = w
    BY <1>1 DEF OwnInv, ReportedInv
  <2>2. report[r] \in SUBSET Messages
    BY <1>1 DEF TypeInv, TypeOK
  <2>3. {n \in report[r] : Room(n[1]) = r} = report[r]
    BY <2>1
  <2>4. Cardinality({m[2] : m \in report[r]}) = Cardinality(report[r])
    BY <2>1, <2>2, OneEach
  <2> QED
    BY <2>1, <2>3, <2>4
<1> QED
  BY <1>1, AllInvariants, PTL
=============================================================================
