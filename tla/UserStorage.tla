----------------------------- MODULE UserStorage -----------------------------
(***************************************************************************)
(* One player's data over several sessions: the storage nodes that keep    *)
(* them, the logic nodes that read them when the player enters a room and  *)
(* save them when the room is over, and their copy on the chain:           *)
(*                                                                         *)
(*   cap_storage.js   appointment, permissions, the two RPC handlers and   *)
(*                    the job that has data put on the chain               *)
(*   cap_logic.js     read, and the storage side of write                  *)
(*   engine_data.js   loadUserFromStorage and its memory of what was read  *)
(*                                                                         *)
(* A session is a room the player is matched into; sessions are numbered   *)
(* as the center appoints them.  Version a of the data is what the game of *)
(* session a made of them; version 0 is what they were saved as before,    *)
(* version -1 something older, Empty a record that was begun anew.  Absent *)
(* is what a store answers that has no data, or fails to read them.  How a *)
(* save is approved by supervisors is the subject of ConsensusWrite.       *)
(***************************************************************************)
EXTENDS Integers, FiniteSets

CONSTANTS
  Stores,     \* the storage nodes of the player
  Nodes,      \* logic and supervisor nodes
  NSessions,  \* bound: the number of sessions
  Host,       \* of a session: its logic node
  Helpers,    \* of a session: its supervisors
  FirstDb,    \* of a store: the version it has in the beginning
  OnChain,    \* is version -1 on the chain?
  Grants,     \* permissions the center may add, and ...
  GrantedTo,  \* ... the nodes they are for
  Expiring,   \* bound: the sessions and grants whose permissions may expire
  Offline,    \* bound: the sessions whose player the job may find offline
  Busy,       \* bound: the stores where permissions are added later and expire, and
              \* whose job may find a player offline
  MaxErrors   \* bound: the stores that fail to read their data base during a read

Sessions == 1..NSessions
Absent   == -3
Empty    == -2
Versions == Absent..NSessions
NoData   == -4

ASSUME StorageAssumption ==
  /\ IsFiniteSet(Stores)
  /\ NSessions \in Nat
  /\ Host \in [Sessions -> Nodes] /\ Helpers \in [Sessions -> SUBSET Nodes]
  /\ FirstDb \in [Stores -> {Absent, -1, 0}] /\ OnChain \in BOOLEAN
  /\ Grants \cap Sessions = {} /\ GrantedTo \in [Grants -> SUBSET Nodes]
  /\ Expiring \subseteq Sessions \cup Grants /\ Offline \subseteq Sessions
  /\ Busy \subseteq Stores /\ MaxErrors \in Nat

VARIABLES
  \* logic nodes
  phase,      \* of a session
  base,       \* of a session: the version its game began with
  cache,      \* of a node: the version engineData.userData has
  asked,      \* <<session, store>>: rpc_storage_read not ended
  replies,    \* <<session, store, version>>: what it brought
  rpc,        \* of a session and a store: its rpc_storage_write
  saving,     \* of a session: the version its rpc_storage_write carry
  \* storage nodes
  db,         \* the version in level db
  perms,      \* permissionMap: the sessions and grants that have not expired
  w2c,        \* write2ChainMap: <<session, store>>
  \* messages, calls and the chain
  notices,    \* <<session, store>>: on_appointment_storage_node on its way
  ethAsked,   \* <<session, store>>: get_user_data not answered
  ethGot,     \* <<session, store, version>>: answered, not put yet
  chainReq,   \* <<session, store, version>>: player_data_to_chain on its way
  chain,      \* what the contract has of the player
  \* history
  latest,     \* the version of the last save that was answered with success
  expected,   \* of a session: latest when its player entered
  held        \* of a session and a store: the version it has had since the read
              \* of the session began, NoData if there is no such version

readVars  == <<asked, replies>>
writeVars == <<rpc, saving>>
chainVars == <<w2c, notices, ethAsked, ethGot, chainReq, chain>>
vars      == <<phase, base, cache, readVars, writeVars, db, perms, chainVars,
               latest, expected, held>>

Phases    == {"none", "appointed", "reading", "playing", "saving", "over", "failed"}

\* "orphan": the caller's connection broke while the handler still runs.
RpcStates == {"none", "sent", "orphan", "acked", "ended"}

Consensus == (2 * Cardinality(Stores)) \div 3

Init ==
  /\ phase = [a \in Sessions |-> "none"]
  /\ base = [a \in Sessions |-> NoData]
  /\ cache = [n \in Nodes |-> NoData]
  /\ asked = {} /\ replies = {}
  /\ rpc = [a \in Sessions |-> [s \in Stores |-> "none"]]
  /\ saving = [a \in Sessions |-> NoData]
  /\ db = FirstDb
  /\ perms = [s \in Stores |-> {}]
  /\ w2c = {} /\ notices = {} /\ ethAsked = {} /\ ethGot = {} /\ chainReq = {}
  /\ chain = IF OnChain THEN -1 ELSE NoData
  /\ latest = 0
  /\ expected = [a \in Sessions |-> 0]
  /\ held = [a \in Sessions |-> [s \in Stores |-> NoData]]

\* A store puts version v.
Put(s, v) ==
  /\ db' = [db EXCEPT ![s] = v]
  /\ held' = [a \in Sessions |->
       [t \in Stores |->
          IF t = s /\ phase[a] = "reading" /\ held[a][s] # v THEN NoData ELSE held[a][t]]]

-----------------------------------------------------------------------------
(* Appointment and permissions.                                            *)

\* The center appoints the nodes of the next session, once the player has entered
\* the room of the one before.
Appoint(a) ==
  /\ phase[a] = "none"
  /\ a - 1 \in Sessions => phase[a - 1] \in {"playing", "saving", "over", "failed"}
  /\ phase' = [phase EXCEPT ![a] = "appointed"]
  /\ notices' = notices \cup ({a} \X Stores)
  /\ UNCHANGED <<base, cache, readVars, writeVars, db, perms, w2c, ethAsked, ethGot,
                 chainReq, chain, latest, expected, held>>

\* onCreatePermission: the session's logic node and supervisors may read and write.
AddPermission(a, s) == perms' = [perms EXCEPT ![s] = @ \cup {a}]

\* onAddPermission: the center adds a permission for a list of nodes.
OnAddPermission(g, s) ==
  /\ s \in Busy /\ g \notin perms[s]
  /\ AddPermission(g, s)
  /\ UNCHANGED <<phase, base, cache, readVars, writeVars, db, chainVars, latest,
                 expected, held>>

\* The session is entered for the job that has data put on the chain.
AddWrite2ChainRequest(a, s) == w2c' = w2c \cup {<<a, s>>}

\* onAppointed of a storage node, up to the await on the chain.
OnAppointed(a, s) ==
  /\ <<a, s>> \in notices
  /\ notices' = notices \ {<<a, s>>}
  /\ AddPermission(a, s)
  /\ AddWrite2ChainRequest(a, s)
  /\ ethAsked' = ethAsked \cup {<<a, s>>}
  /\ UNCHANGED <<phase, base, cache, readVars, writeVars, db, ethGot, chainReq, chain,
                 latest, expected, held>>

\* readFromETH: nothing is put for a newcomer, or when the call fails.
EthAnswers(a, s) ==
  /\ <<a, s>> \in ethAsked
  /\ ethAsked' = ethAsked \ {<<a, s>>}
  /\ ethGot' = ethGot \cup (IF chain = NoData THEN {} ELSE {<<a, s, chain>>})
  /\ UNCHANGED <<phase, base, cache, readVars, writeVars, db, perms, w2c, notices,
                 chainReq, chain, latest, expected, held>>

\* get_user_data fails: the center does not know the contract, or the chain is silent.
EthFails(a, s) ==
  /\ <<a, s>> \in ethAsked
  /\ ethAsked' = ethAsked \ {<<a, s>>}
  /\ UNCHANGED <<phase, base, cache, readVars, writeVars, db, perms, w2c, notices,
                 ethGot, chainReq, chain, latest, expected, held>>

\* ... whatever the store has by now.
EthPut(a, s, v) ==
  /\ <<a, s, v>> \in ethGot
  /\ ethGot' = ethGot \ {<<a, s, v>>}
  /\ Put(s, v)
  /\ UNCHANGED <<phase, base, cache, readVars, writeVars, perms, w2c, notices, ethAsked,
                 chainReq, chain, latest, expected>>

\* The time to live of a permission is over (permissionGc drops it at the next check).
PermissionExpires(b, s) ==
  /\ s \in Busy /\ b \in perms[s] /\ b \in Expiring
  /\ perms' = [perms EXCEPT ![s] = @ \ {b}]
  /\ UNCHANGED <<phase, base, cache, readVars, writeVars, db, chainVars, latest,
                 expected, held>>

\* checkPermission: any permission will do.
Permitted(n, s) ==
  \E b \in perms[s] :
    IF b \in Grants THEN n \in GrantedTo[b] ELSE n = Host[b] \/ n \in Helpers[b]

-----------------------------------------------------------------------------
(* Reading.                                                                *)

\* Remembered of a node that always takes what it has in memory.
AlwaysRemembered(n) == TRUE

\* Has the node read or made the player's data before?  They are never dropped.
Remembered(n) == cache[n] # NoData

\* loadUserFromStorage: read asks every store.
Enter(a) ==
  LET n == Host[a]
  IN /\ phase[a] = "appointed"
     /\ expected' = [expected EXCEPT ![a] = latest]
     /\ IF Remembered(n)
          THEN /\ base' = [base EXCEPT ![a] = cache[n]]
               /\ phase' = [phase EXCEPT ![a] = "playing"]
               /\ UNCHANGED <<asked, held>>
          ELSE /\ asked' = asked \cup ({a} \X Stores)
               /\ held' = [held EXCEPT ![a] = db]
               /\ phase' = [phase EXCEPT ![a] = "reading"]
               /\ UNCHANGED base
     /\ UNCHANGED <<cache, replies, writeVars, db, perms, chainVars, latest>>

\* The stores that have answered with version v.
Brought(a, v) == {s \in Stores : <<a, s, v>> \in replies}

\* handleRpcStorageRead, and its answer reaches the caller.
StoreReads(a, s) ==
  /\ <<a, s>> \in asked
  /\ Permitted(Host[a], s)
  /\ asked' = asked \ {<<a, s>>}
  /\ replies' = replies \cup {<<a, s, db[s]>>}
  /\ UNCHANGED <<phase, base, cache, writeVars, db, perms, chainVars, latest, expected,
                 held>>

\* dbprovider_level.js: a data base that fails to read answers like an empty one.  The
\* store cannot be counted on for this read.
StoreReadsNothing(a, s) ==
  /\ <<a, s>> \in asked
  /\ Permitted(Host[a], s)
  /\ Cardinality(Brought(a, Absent)) < MaxErrors
  /\ asked' = asked \ {<<a, s>>}
  /\ replies' = replies \cup {<<a, s, Absent>>}
  /\ held' = [held EXCEPT ![a][s] = NoData]
  /\ UNCHANGED <<phase, base, cache, writeVars, db, perms, chainVars, latest, expected>>

\* The call is denied, or it or its answer is lost.
ReadFails(a, s) ==
  /\ <<a, s>> \in asked
  /\ asked' = asked \ {<<a, s>>}
  /\ UNCHANGED <<phase, base, cache, replies, writeVars, db, perms, chainVars, latest,
                 expected, held>>

\* Agreed with an off-by-one.
AgreedAtConsensus(a, v) == Cardinality(Brought(a, v)) >= Consensus

\* Enough replies agree on version v.
Agreed(a, v) == Cardinality(Brought(a, v)) > Consensus

\* _initUserData: a player without data begins with an empty record.
InitUserData(v) == IF v = Absent THEN Empty ELSE v

\* All the calls of a read have ended: what it has collected goes with it.
ReadEnds(a) ==
  /\ phase[a] = "reading" /\ \A s \in Stores : <<a, s>> \notin asked
  /\ replies' = {r \in replies : r[1] # a}
  /\ held' = [held EXCEPT ![a] = [s \in Stores |-> NoData]]

ReadResolves(a, v) ==
  /\ ReadEnds(a)
  /\ Agreed(a, v)
  /\ base' = [base EXCEPT ![a] = InitUserData(v)]
  /\ cache' = [cache EXCEPT ![Host[a]] = InitUserData(v)]
  /\ phase' = [phase EXCEPT ![a] = "playing"]
  /\ UNCHANGED <<asked, writeVars, db, perms, chainVars, latest, expected>>

ReadRejects(a) ==
  /\ ReadEnds(a)
  /\ \A v \in Versions : ~Agreed(a, v)
  /\ phase' = [phase EXCEPT ![a] = "failed"]
  /\ UNCHANGED <<base, cache, asked, writeVars, db, perms, chainVars, latest, expected>>

-----------------------------------------------------------------------------
(* Playing and saving.                                                     *)

Play(a) ==
  /\ phase[a] = "playing" /\ cache[Host[a]] # a
  /\ cache' = [cache EXCEPT ![Host[a]] = a]
  /\ UNCHANGED <<phase, base, readVars, writeVars, db, perms, chainVars, latest,
                 expected, held>>

\* The room is over and its supervisors have approved the data: they go to every store.
Save(a) ==
  /\ phase[a] = "playing"
  /\ phase' = [phase EXCEPT ![a] = "saving"]
  /\ rpc' = [rpc EXCEPT ![a] = [s \in Stores |-> "sent"]]
  /\ saving' = [saving EXCEPT ![a] = cache[Host[a]]]
  /\ UNCHANGED <<base, cache, readVars, db, perms, chainVars, latest, expected, held>>

\* ... or they have not.
SaveTimesOut(a) ==
  /\ phase[a] = "playing"
  /\ phase' = [phase EXCEPT ![a] = "failed"]
  /\ UNCHANGED <<base, cache, readVars, writeVars, db, perms, chainVars, latest,
                 expected, held>>

\* handleRpcStorageWrite: caller and witnesses need a permission.
StoreWrites(a, s, answered) ==
  /\ rpc[a][s] \in {"sent", "orphan"}
  /\ Permitted(Host[a], s) /\ \A n \in Helpers[a] : Permitted(n, s)
  /\ Put(s, saving[a])
  /\ rpc' = [rpc EXCEPT ![a][s] = IF @ = "sent" /\ answered THEN "acked" ELSE "ended"]
  /\ UNCHANGED <<phase, base, cache, readVars, saving, perms, chainVars, latest,
                 expected>>

StoreRefuses(a, s) ==
  /\ rpc[a][s] \in {"sent", "orphan"}
  /\ rpc' = [rpc EXCEPT ![a][s] = "ended"]
  /\ UNCHANGED <<phase, base, cache, readVars, saving, db, perms, chainVars, latest,
                 expected, held>>

ConnectionBreaks(a, s) ==
  /\ rpc[a][s] = "sent"
  /\ rpc' = [rpc EXCEPT ![a][s] = "orphan"]
  /\ UNCHANGED <<phase, base, cache, readVars, saving, db, perms, chainVars, latest,
                 expected, held>>

\* Fulfilled when a call that broke counts like one that was answered.
EndedCalls(a) == {s \in Stores : rpc[a][s] # "none"}

\* The calls of a save that were answered with success.
Fulfilled(a) == {s \in Stores : rpc[a][s] = "acked"}

SaveSettles(a) ==
  /\ phase[a] = "saving" /\ \A s \in Stores : rpc[a][s] # "sent"
  /\ phase' = [phase EXCEPT ![a] = "over"]
  /\ rpc' = [rpc EXCEPT ![a] = [s \in Stores |-> IF @[s] = "acked" THEN "ended" ELSE @[s]]]
  /\ latest' = IF Cardinality(Fulfilled(a)) > Consensus
                 THEN saving[a] ELSE latest
  /\ UNCHANGED <<base, cache, readVars, saving, db, perms, chainVars, expected, held>>

-----------------------------------------------------------------------------
(* The job that has the data of players who are offline put on the chain.  *)

\* The entry stays until the center has answered: a slow answer lets the next round
\* of the job send the request again.
JobRequests(a, s) ==
  /\ s \in Busy /\ <<a, s>> \in w2c /\ a \in Offline /\ db[s] # Absent
  /\ chainReq' = chainReq \cup {<<a, s, db[s]>>}
  /\ UNCHANGED <<phase, base, cache, readVars, writeVars, db, perms, w2c, notices,
                 ethAsked, ethGot, chain, latest, expected, held>>

\* Whether or not the center has the data put on the chain, the entry is deleted.
CenterAnswers(a, s, v, accepts) ==
  /\ <<a, s, v>> \in chainReq
  /\ chainReq' = chainReq \ {<<a, s, v>>}
  /\ w2c' = w2c \ {<<a, s>>}
  /\ chain' = IF accepts THEN v ELSE chain
  /\ UNCHANGED <<phase, base, cache, readVars, writeVars, db, perms, notices, ethAsked,
                 ethGot, latest, expected, held>>

-----------------------------------------------------------------------------
Next ==
  \/ \E a \in Sessions :
       \/ Appoint(a) \/ Enter(a) \/ ReadRejects(a)
       \/ Play(a) \/ Save(a) \/ SaveTimesOut(a) \/ SaveSettles(a)
  \/ \E a \in Sessions, v \in Versions : ReadResolves(a, v)
  \/ \E a \in Sessions, s \in Stores :
       \/ OnAppointed(a, s) \/ EthAnswers(a, s) \/ EthFails(a, s)
       \/ StoreReads(a, s) \/ StoreReadsNothing(a, s) \/ ReadFails(a, s)
       \/ StoreRefuses(a, s) \/ ConnectionBreaks(a, s) \/ JobRequests(a, s)
  \/ \E g \in Grants, s \in Stores : OnAddPermission(g, s)
  \/ \E b \in Sessions \cup Grants, s \in Stores : PermissionExpires(b, s)
  \/ \E a \in Sessions, s \in Stores, answered \in BOOLEAN : StoreWrites(a, s, answered)
  \/ \E a \in Sessions, s \in Stores, v \in Versions :
       EthPut(a, s, v) \/ \E accepts \in BOOLEAN : CenterAnswers(a, s, v, accepts)

Spec == Init /\ [][Next]_vars

-----------------------------------------------------------------------------
(* Properties.                                                             *)

SessionsOK ==
  /\ phase \in [Sessions -> Phases]
  /\ base \in [Sessions -> Versions \cup {NoData}]
  /\ cache \in [Nodes -> Versions \cup {NoData}]
  /\ \A a \in Sessions : phase[a] \in {"playing", "saving", "over"} =>
       base[a] # NoData /\ cache[Host[a]] # NoData

ReadsOK ==
  /\ asked \subseteq Sessions \X Stores
  /\ replies \subseteq Sessions \X Stores \X Versions
  /\ held \in [Sessions -> [Stores -> Versions \cup {NoData}]]

SavesOK ==
  /\ rpc \in [Sessions -> [Stores -> RpcStates]]
  /\ saving \in [Sessions -> Versions \cup {NoData}]
  /\ \A a \in Sessions : (phase[a] = "saving" \/ \E s \in Stores : rpc[a][s] # "none") =>
       saving[a] # NoData

StoresOK == db \in [Stores -> Versions] /\ perms \in [Stores -> SUBSET (Sessions \cup Grants)]

ChainOK ==
  /\ w2c \subseteq Sessions \X Stores
  /\ notices \subseteq Sessions \X Stores
  /\ ethAsked \subseteq Sessions \X Stores
  /\ ethGot \subseteq Sessions \X Stores \X Versions
  /\ chainReq \subseteq Sessions \X Stores \X Versions
  /\ chain \in Versions \cup {NoData}

HistoryOK == latest \in Versions /\ expected \in [Sessions -> Versions]

\* Every variable keeps its type; a session that is played began with some version,
\* which its node still has or has replaced, and what is being saved is some version.
TypeOK == SessionsOK /\ ReadsOK /\ SavesOK /\ StoresOK /\ ChainOK /\ HistoryOK

Steady(a, v) == {s \in Stores : held[a][s] = v}

\* When a third of the stores, just enough to be missing for more than two thirds,
\* have version v from the start of a session's read to its end, and can read it, the
\* session begins with version v or not at all: whatever the others answer, be it that
\* their data base fails, that the chain's version was put over a newer one or that a
\* save or a late write came in between, and whatever is lost.
ReadIsSteady ==
  [][\A a \in Sessions, v \in Versions :
       /\ phase[a] = "reading" /\ phase'[a] = "playing"
       /\ Cardinality(Steady(a, v)) >= Cardinality(Stores) - Consensus
       => base'[a] = InitUserData(v)]_vars

\* TODO-litao.md:2: what is read after a save was answered is not older than what
\* was saved.  It holds as long as every session is on a node of its own, nothing
\* comes back from the chain and, when there are more than two sessions, each is
\* entered when those before it are through: a late write of the first would put its
\* data over those the second has saved.
NothingSavedIsLost ==
  \A a \in Sessions : base[a] # NoData => base[a] >= expected[a]

-----------------------------------------------------------------------------
(* What storage is for the rooms.                                          *)

Entered(a) == phase[a] \notin {"none", "appointed"}
Pending(a, s) == rpc[a][s] \in {"sent", "orphan"}

\* Nothing of the session is under way any more, no late write either.
Through(a) == phase[a] \in {"over", "failed"} /\ \A s \in Stores : ~Pending(a, s)

\* Before a session is entered those before it are through, except before the last.
InTurn == \A a, b \in Sessions : a < b /\ b < NSessions /\ Entered(b) => Through(a)

Record == INSTANCE PlayerRecord WITH stage <- phase, saved <- saving

\* Stores, calls, quorums and permissions together are a register of the player's data
\* (PlayerRecord): a session begins with data that were saved, no older than the last
\* save that was answered before it was entered and no older than what an earlier
\* session began with, or it does not begin.  It holds where NothingSavedIsLost does.
ImplementsRecord == Record!Spec
=============================================================================
