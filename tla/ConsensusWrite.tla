--------------------------- MODULE ConsensusWrite ---------------------------
(***************************************************************************)
(* Saving the players' data when a room is over, as a logic node does it   *)
(* with its supervisors and with the storage nodes:                        *)
(*                                                                         *)
(*   engine_data.js     _doSaveToStorage starts one write per player       *)
(*   cap_logic.js       write, onMessageDataVerified, the write time-out   *)
(*   cap_supervisor.js  the queue of verify requests and the job over it   *)
(*   cap_storage.js     handleRpcStorageWrite                              *)
(*   match_result.js    the supervisors known for a room                   *)
(*                                                                         *)
(* A write is identified by its room and by its place in the room's list   *)
(* of players.  pendingWriteMap is the set of the writes it holds: its key *)
(* is <<player, digest>> (one game), and a digest stands for the datum it  *)
(* is the hash of.                                                         *)
(***************************************************************************)
EXTENDS Naturals, Sequences, FiniteSets

CONSTANTS
  Users,      \* the players of one game
  Rooms,      \* the rooms this logic node was appointed to
  Sups,       \* the supervisor nodes
  Stores,     \* the storage nodes provisioned for each of the players
  Data,       \* the values a player's data may take
  InitData,   \* the value every player's data has at the start
  RoomSups,   \* the supervisors appointed with each room
  MaxList     \* bound: the longest list of players a room saves

ASSUME ConstantsAssumption ==
  /\ IsFiniteSet(Sups) /\ IsFiniteSet(Stores) /\ IsFiniteSet(Rooms)
  /\ RoomSups \in [Rooms -> SUBSET Sups]
  /\ InitData \in Data
  /\ MaxList \in Nat \ {0}

Writes == Rooms \X (1..MaxList)
Room(w) == w[1]

VARIABLES
  live,       \* engineData.userData: the data the game works on
  supKnown,   \* the rooms _roomSupervisorMap has an entry for
  saved,      \* the rooms whose save was started, oldest first
  key,        \* key of a write: its player and the digest of what it saves
  status,     \* of a write: see Statuses
  answers,    \* of a write: the calls of its callback, in order
  pending,    \* the writes pendingWriteMap holds
  signers,    \* of a write: the signed messages pushed on it
  armed,      \* the writes whose 30 s timer has not fired
  asked,      \* message_data_verify on its way to a supervisor
  queued,     \* verifyRequestQueue of each supervisor
  signed,     \* message_data_verified on its way back
  rpc,        \* of a write and a storage node: its rpc_storage_write
  rpcData,    \* of a write: the data its rpc_storage_write carry
  db,         \* level db of each storage node
  report      \* of a room: the signatures sent to the center when it is over

logicVars == <<live, supKnown, saved, key, status, answers, pending, signers, armed,
               report>>
supVars   == <<asked, queued, signed>>
rpcVars   == <<rpc, rpcData, db>>
vars      == <<logicVars, supVars, rpcVars>>

\* "none": the write was not called; "refused": it ran into the re-entry check;
\* "wait" and "writing" are the code's; "settled": all its RPCs have ended.
Statuses  == {"none", "refused", "wait", "writing", "settled"}
Answers   == {"ok", "timeout", "failed", "reentry"}

\* An RPC is "sent", then "applied" once the storage node has put the datum,
\* then "acked", or "failed" when the storage node refused.  The caller may see
\* its connection break in between, after the put ("stray") or before it
\* ("orphan": the handler goes on, and may still put).
RpcStates == {"none", "sent", "orphan", "applied", "acked", "stray", "failed"}

\* A message is named by the write that asked for it and by the supervisor.
Messages  == Writes \X Sups

User(w)   == key[w][1]
Digest(w) == key[w][2]

Threshold(r) == (2 * Cardinality(RoomSups[r])) \div 3
Consensus    == (2 * Cardinality(Stores)) \div 3

-----------------------------------------------------------------------------
Init ==
  /\ live     = [u \in Users |-> InitData]
  /\ supKnown = Rooms
  /\ saved    = << >>
  /\ key      = [w \in Writes |-> << >>]
  /\ status   = [w \in Writes |-> "none"]
  /\ answers  = [w \in Writes |-> << >>]
  /\ pending  = {}
  /\ signers  = [w \in Writes |-> {}]
  /\ armed    = {}
  /\ asked = {} /\ queued = {} /\ signed = {}
  /\ rpc      = [w \in Writes |-> [s \in Stores |-> "none"]]
  /\ rpcData  = [w \in Writes |-> InitData]
  /\ db       = [s \in Stores |-> [u \in Users |-> InitData]]
  /\ report   = [r \in Rooms |-> {}]

-----------------------------------------------------------------------------
(* The logic node: starting the writes of a room.                          *)

\* InUse without the re-entry check.
NeverInUse(k) == FALSE

\* Would the re-entry check refuse a write with this key?
InUse(k) == \E w \in pending : key[w] = k

\* The writes of a room with n players, and the key of each: the digest is taken
\* of the player's data as they are when the save starts.
NewWrites(r, n) == {w \in Writes : Room(w) = r /\ w[2] <= n}
NewKey(list, w) == <<list[w[2]], live[list[w[2]]]>>

\* A write is refused when its key is pending already, be it through an earlier
\* room or through the same player earlier in this list (a player that left the
\* room and came back is in the list twice).
Accepted(r, n, list) ==
  {w \in NewWrites(r, n) :
     /\ ~InUse(NewKey(list, w))
     /\ \A v \in NewWrites(r, n) : v[2] < w[2] => list[v[2]] # list[w[2]]}

\* _doSaveToStorage calls write for every player of the list, in one step.
SaveList(r, n, list) ==
  /\ \A i \in DOMAIN saved : saved[i] # r
  /\ saved' = Append(saved, r)
  /\ key' = [w \in Writes |-> IF w \in NewWrites(r, n) THEN NewKey(list, w) ELSE key[w]]
  /\ status' = [w \in Writes |->
                  IF w \in Accepted(r, n, list) THEN "wait"
                  ELSE IF w \in NewWrites(r, n) THEN "refused" ELSE status[w]]
  /\ pending' = pending \cup Accepted(r, n, list)
  /\ armed' = armed \cup Accepted(r, n, list)
  /\ asked' = asked \cup (Accepted(r, n, list) \X RoomSups[r])
  /\ UNCHANGED <<live, supKnown, answers, signers, queued, signed, rpcVars, report>>

SaveRoom(r) == \E n \in 1..MaxList : \E list \in [1..n -> Users] : SaveList(r, n, list)

\* The callback of a write, with the answer a: whatever the answer, it first
\* drops the supervisors of the write's room.
Callback(w, a) ==
  /\ answers' = [answers EXCEPT ![w] = Append(@, a)]
  /\ supKnown' = supKnown \ {Room(w)}

\* setImmediate of a write the re-entry check refused.
RefuseReentry(w) ==
  /\ status[w] = "refused" /\ answers[w] = << >>
  /\ Callback(w, "reentry")
  /\ UNCHANGED <<live, saved, key, status, pending, signers, armed, report, supVars,
                 rpcVars>>

\* The 30 s timer remembers the key of its write only: it deletes whatever entry
\* the key has when it fires.  Timers of equal delay fire in the order they were
\* armed.
Older(v, w) ==
  \/ Room(v) = Room(w) /\ v[2] < w[2]
  \/ \E i, j \in DOMAIN saved : i < j /\ saved[i] = Room(v) /\ saved[j] = Room(w)

\* TimesOut without its check of the status, and with a check that never passes.
TimesOutAlways(w) == TRUE
TimesOutNever(w)  == FALSE

\* Does the timer that finds w in the map call its callback?
TimesOut(w) == status[w] = "wait"

Timer(w) ==
  /\ w \in armed
  /\ \A v \in armed : ~Older(v, w)
  /\ armed' = armed \ {w}
  /\ pending' = {v \in pending : key[v] # key[w]}
  /\ \/ \E v \in pending : key[v] = key[w] /\ TimesOut(v) /\ Callback(v, "timeout")
     \/ /\ \A v \in pending : key[v] = key[w] => ~TimesOut(v)
        /\ UNCHANGED <<answers, supKnown>>
  /\ UNCHANGED <<live, saved, key, status, signers, report, supVars, rpcVars>>

-----------------------------------------------------------------------------
(* Supervisors.                                                            *)

RequestArrives(m) ==
  /\ m \in asked
  /\ asked' = asked \ {m}
  /\ queued' = queued \cup {m}
  /\ UNCHANGED <<logicVars, signed, rpcVars>>

\* The job of a supervisor answers everything in its queue; approveUserData
\* approves whatever it is asked.
VerificationJob(s) ==
  LET own == {m \in queued : m[2] = s}
  IN /\ own # {}
     /\ queued' = queued \ own
     /\ signed' = signed \cup own
     /\ UNCHANGED <<logicVars, asked, rpcVars>>

\* A request or a reply does not get through; nobody sends it again.
LoseMessage(m) ==
  /\ m \in asked \cup signed
  /\ asked' = asked \ {m}
  /\ signed' = signed \ {m}
  /\ UNCHANGED <<logicVars, queued, rpcVars>>

-----------------------------------------------------------------------------
(* The logic node: signatures and storage.                                 *)

\* Enough with one signature less.
EnoughAtThreshold(sigs, r) == Cardinality(sigs) >= Threshold(r)

Enough(sigs, r) == Cardinality(sigs) > Threshold(r)

\* Finds, looking for the player only.
FindsByPlayer(m, w) == w \in pending /\ User(w) = User(m[1])

\* The write whose entry a message finds: same key as the write that asked.
Finds(m, w) == w \in pending /\ key[w] = key[m[1]]

\* onMessageDataVerified, no entry for the key: ignored.
IgnoreVerified(m) ==
  /\ m \in signed
  /\ \A w \in pending : ~Finds(m, w)
  /\ signed' = signed \ {m}
  /\ UNCHANGED <<logicVars, asked, queued, rpcVars>>

\* NotSentYet without the check.
SentAgain(w) == TRUE

\* The RPCs of a write are sent once, however many signatures come.
NotSentYet(w) == status[w] = "wait"

\* onMessageDataVerified, entry found: the signature is pushed before anything
\* else.  The supervisors it is counted against are those of the room the MESSAGE
\* names; when a callback has dropped them, reading their number throws.  The
\* RPCs carry the live object, as it is now.
CollectVerified(m, w) ==
  LET r    == Room(m[1])
      sigs == signers[w] \cup {m}
      go   == r \in supKnown /\ Enough(sigs, r) /\ NotSentYet(w)
  IN /\ m \in signed /\ Finds(m, w)
     /\ signed' = signed \ {m}
     /\ signers' = [signers EXCEPT ![w] = sigs]
     /\ IF go
          THEN /\ status' = [status EXCEPT ![w] = "writing"]
               /\ rpc' = [rpc EXCEPT ![w] = [s \in Stores |-> "sent"]]
               /\ rpcData' = [rpcData EXCEPT ![w] = live[User(w)]]
          ELSE UNCHANGED <<status, rpc, rpcData>>
     /\ UNCHANGED <<live, supKnown, saved, key, answers, pending, armed, report,
                    asked, queued, db>>

\* SignaturesMatch without the check.
SignaturesNotChecked(w) == TRUE

\* handleRpcStorageWrite: every signature is checked against the hash of the
\* data that came with it, not against the number of supervisors.
SignaturesMatch(w) == rpcData[w] = Digest(w)

StoreApplies(w, s) ==
  /\ rpc[w][s] \in {"sent", "orphan"}
  /\ SignaturesMatch(w)
  /\ db' = [db EXCEPT ![s][User(w)] = rpcData[w]]
  /\ rpc' = [rpc EXCEPT ![w][s] = IF @ = "sent" THEN "applied" ELSE "stray"]
  /\ UNCHANGED <<logicVars, supVars, rpcData>>

\* The permissions have expired, a signature does not match, or the node is down.
StoreRefuses(w, s) ==
  /\ rpc[w][s] \in {"sent", "orphan"}
  /\ rpc' = [rpc EXCEPT ![w][s] = "failed"]
  /\ UNCHANGED <<logicVars, supVars, rpcData, db>>

StoreReplies(w, s) ==
  /\ rpc[w][s] = "applied"
  /\ rpc' = [rpc EXCEPT ![w][s] = "acked"]
  /\ UNCHANGED <<logicVars, supVars, rpcData, db>>

ConnectionBreaks(w, s) ==
  /\ rpc[w][s] \in {"sent", "applied"}
  /\ rpc' = [rpc EXCEPT ![w][s] = IF @ = "sent" THEN "orphan" ELSE "stray"]
  /\ UNCHANGED <<logicVars, supVars, rpcData, db>>

Fulfilled(w) == {s \in Stores : rpc[w][s] = "acked"}

\* EnoughReplies with one reply less.
EnoughRepliesAtConsensus(w) == Cardinality(Fulfilled(w)) >= Consensus

EnoughReplies(w) == Cardinality(Fulfilled(w)) > Consensus

\* BB.all: every RPC has ended for the caller.  The entry of the key is deleted,
\* be it this write's or that of a later one.
WriteSettles(w) ==
  /\ status[w] = "writing"
  /\ \A s \in Stores : rpc[w][s] \in {"orphan", "acked", "stray", "failed"}
  /\ status' = [status EXCEPT ![w] = "settled"]
  /\ pending' = {v \in pending : key[v] # key[w]}
  /\ Callback(w, IF EnoughReplies(w) THEN "ok" ELSE "failed")
  /\ UNCHANGED <<live, saved, key, signers, armed, report, supVars, rpcVars>>

\* saveUserToStorage: all the writes of the room were answered.  The room is
\* reported over with the room signatures of the first player whose data was
\* saved, or not at all when no player's was.
FirstOk(r, w) ==
  /\ Room(w) = r /\ answers[w] # << >> /\ Head(answers[w]) = "ok"
  /\ \A v \in Writes :
       Room(v) = r /\ v[2] < w[2] /\ answers[v] # << >> => Head(answers[v]) # "ok"

\* Ended when the first answer is there.
EndedOnce(r) == \E w \in Writes : Room(w) = r /\ status[w] # "none" /\ answers[w] # << >>

Ended(r)  == \A w \in Writes : Room(w) = r /\ status[w] # "none" => answers[w] # << >>

ReportRoom(r) ==
  /\ \E i \in DOMAIN saved : saved[i] = r
  /\ Ended(r) /\ report[r] = {}
  /\ \E w \in Writes : FirstOk(r, w) /\ report' = [report EXCEPT ![r] = signers[w]]
  /\ UNCHANGED <<live, supKnown, saved, key, status, answers, pending, signers, armed,
                 supVars, rpcVars>>

\* The game's code changes the data of a player (Onupdate is never stopped).
GameChanges(u, d) ==
  /\ d # live[u]
  /\ live' = [live EXCEPT ![u] = d]
  /\ UNCHANGED <<supKnown, saved, key, status, answers, pending, signers, armed, report,
                 supVars, rpcVars>>

-----------------------------------------------------------------------------
Next ==
  \/ \E r \in Rooms : SaveRoom(r) \/ ReportRoom(r)
  \/ \E w \in Writes : RefuseReentry(w) \/ Timer(w) \/ WriteSettles(w)
  \/ \E m \in Messages : RequestArrives(m) \/ LoseMessage(m) \/ IgnoreVerified(m)
  \/ \E m \in Messages, w \in Writes : CollectVerified(m, w)
  \/ \E s \in Sups : VerificationJob(s)
  \/ \E w \in Writes, s \in Stores :
       \/ StoreApplies(w, s) \/ StoreRefuses(w, s)
       \/ StoreReplies(w, s) \/ ConnectionBreaks(w, s)
  \/ \E u \in Users, d \in Data : GameChanges(u, d)

Spec == Init /\ [][Next]_vars

\* What Node and the network do sooner or later: timers fire, callbacks run, an
\* RPC ends one way or another.  Nothing is assumed of supervisors or messages.
Fairness ==
  /\ \A w \in Writes :
       /\ WF_vars(RefuseReentry(w)) /\ WF_vars(Timer(w)) /\ WF_vars(WriteSettles(w))
  /\ \A w \in Writes, s \in Stores :
       WF_vars(StoreApplies(w, s) \/ StoreRefuses(w, s) \/ StoreReplies(w, s)
               \/ ConnectionBreaks(w, s))
  /\ \A r \in Rooms : WF_vars(ReportRoom(r))

FairSpec == Spec /\ Fairness

-----------------------------------------------------------------------------
(* Properties.                                                             *)

\* Every variable keeps its type; a write that was called has a key, and no two
\* pending writes have the same one (pendingWriteMap is a map).
TypeOK ==
  /\ live \in [Users -> Data]
  /\ supKnown \subseteq Rooms
  /\ saved \in Seq(Rooms)
  /\ DOMAIN key = Writes
  /\ status \in [Writes -> Statuses]
  /\ \A w \in Writes : status[w] # "none" => key[w] \in Users \X Data
  /\ answers \in [Writes -> Seq(Answers)]
  /\ pending \subseteq Writes
  /\ \A v, w \in pending : key[v] = key[w] => v = w
  /\ signers \in [Writes -> SUBSET Messages]
  /\ armed \subseteq Writes
  /\ asked \subseteq Messages /\ queued \subseteq Messages /\ signed \subseteq Messages
  /\ rpc \in [Writes -> [Stores -> RpcStates]]
  /\ rpcData \in [Writes -> Data]
  /\ db \in [Stores -> [Users -> Data]]
  /\ report \in [Rooms -> SUBSET Messages]

Started(w) == status[w] \in {"writing", "settled"}

\* A supervisor that was asked about w's player and w's very datum, by w's room
\* or by another.
Vouches(m, w) == key[m[1]] = key[w] /\ m[2] \in RoomSups[Room(m[1])]

\* The supervisors of w's own room that signed what w saves, each counted once.
Signatories(w) ==
  {m[2] : m \in {n \in signers[w] : Room(n[1]) = Room(w) /\ Vouches(n, w)}}

ApprovedWrite(w) == Started(w) /\ Cardinality(Signatories(w)) > Threshold(Room(w))

\* The writes that asked the supervisors of their room.
Asks(w) == status[w] \notin {"none", "refused"}

\* Two rooms save the same datum of the same player: signatures for either write
\* are then pushed on whichever entry the key has, and all are counted.
Shared(k) ==
  \E v, w \in Writes :
    /\ Asks(v) /\ key[v] = k
    /\ Asks(w) /\ key[w] = k
    /\ Room(v) # Room(w)

\* No storage node ever holds a datum, other than the one it began with, unless
\* more than two thirds of the supervisors of ONE room, counted by node and not by
\* message, signed it for that room: although the RPC carries the live object and
\* not what was hashed when the write began, and although the storage node never
\* counts the signatures.  Data that two rooms save are left out: there
\* onMessageDataVerified counts one supervisor twice.
StoredIsApproved ==
  \A s \in Stores, u \in Users, d \in Data \ {InitData} :
    db[s][u] = d =>
      \/ Shared(<<u, d>>)
      \/ \E w \in Writes : key[w] = <<u, d>> /\ ApprovedWrite(w)

\* The callback of a write is called at most once, whatever the order of its
\* timer, of the timers other writes of the same key left behind, and of its RPCs.
AnsweredAtMostOnce == \A w \in Writes : Len(answers[w]) <= 1

Answered(w, a) == \E i \in DOMAIN answers[w] : answers[w][i] = a

\* A write that was answered "timeout" was never sent to a storage node, and
\* never is: the timer spares a write whose RPCs are on their way.
TimedOutNeverStored ==
  \A w \in Writes : Answered(w, "timeout") => \A s \in Stores : rpc[w][s] = "none"

\* s holds the datum of w, or of another write of the player that storage was sent.
Holds(s, w) ==
  \E v \in Writes : Started(v) /\ key[v] = <<User(w), db[s][User(w)]>>

\* When a write is answered "ok", more than two thirds of the storage nodes hold
\* its datum or that of another write of the same player which storage was sent,
\* and go on so.
SuccessIsDurable ==
  \A w \in Writes :
    Answered(w, "ok") => Cardinality({s \in Stores : Holds(s, w)}) > Consensus

\* Another room saves what this one saves of some player.
Contested(r) == \E w \in Writes : Room(w) = r /\ Asks(w) /\ Shared(key[w])

\* What is handed to the center when a room is over are the signatures of more
\* than two thirds of the supervisors of THIS room over its room hash, as long as
\* no other room saves the same data: although a signature is matched with the
\* entry of its key, and counted for the room it names.
ReportIsRoomQuorum ==
  \A r \in Rooms : report[r] # {} =>
    \/ Contested(r)
    \/ Cardinality({m[2] : m \in {n \in report[r] : Room(n[1]) = r}}) > Threshold(r)

\* The storage nodes that have put the datum of a write.
Applied(w) == {s \in Stores : rpc[w][s] \in {"applied", "acked", "stray"}}

\* A room is reported over only when no write of it is open any more, and when
\* more than two thirds of the storage nodes have put the datum of one of its
\* players: of the others it says nothing.
ReportedIsSaved ==
  \A r \in Rooms : report[r] # {} =>
    /\ \A w \in Writes : Room(w) = r /\ status[w] # "none" => answers[w] # << >>
    /\ \E w \in Writes : Room(w) = r /\ Cardinality(Applied(w)) > Consensus

\* What RoomSave sees of the protocol.
SentWrites == {w \in Writes : Started(w)}
AppliedAt      == [w \in Writes |-> Applied(w)]
OverRooms      == {r \in Rooms : report[r] # {}}

MoreThanTwoThirds == {S \in SUBSET Stores : Cardinality(S) > Consensus}

Save == INSTANCE RoomSave WITH
  Quorums <- MoreThanTwoThirds,
  sent <- SentWrites, applied <- AppliedAt, over <- OverRooms

\* Supervisors, signatures, keys, timers and messages together are no more than
\* RoomSave: a write ends once, reaches storage only when it was sent, with the
\* datum it was asked for, and never after it was answered "timeout".
ImplementsRoomSave == Save!Spec

\* Every write that was called is answered in the end: with its outcome, by its
\* timer or by the re-entry check.
EveryWriteAnswered == \A w \in Writes : status[w] # "none" ~> answers[w] # << >>
=============================================================================
