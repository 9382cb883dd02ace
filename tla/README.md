# A TLA+ model of the Laya.Cloud node

The repository is a node of a peer-to-peer network that runs the server side of
real-time games. A *center* (not in the repository) matches players into rooms
and appoints nodes to them: one *logic node* runs the game of a room, several
*supervisor nodes* repeat it, and several *storage nodes* keep the players'
data, which eventually go to a contract on a chain. Every node is one Node.js
process: handlers run to their end or to their next `await`, and everything
that can go wrong happens between such steps or between nodes.

The modules here model the parts of `src/lib` whose correctness depends on such
interleavings. TLC checks them on small instances; TLAPS proves the most
important facts for every size.

## Inventory

| Component (src/lib) | State | Operations | What makes it correct |
|---|---|---|---|
| Consensus write: `game/cap_logic.js` (`write`, `onMessageDataVerified`), `engine/engine_data.js`, `supervisor/cap_supervisor.js`, `storage/cap_storage.js` | `pendingWriteMap`, a 30 s timer per write, `verifyRequestQueue`, level db, supervisors known per room | save a room, collect signatures, send to storage, answer, report to the center | data are stored only with enough signatures; each write is answered exactly once; "ok" means durable; the report carries this room's signatures |
| Users, sockets, rooms: `game/user.js`, `user_mgr.js`, `room.js`, `room_mgr.js`, `game.js`, `game_mgr.js`, `engine/engine.js` | `userMgr.users`, `roomMgr.rooms`, `_userList`, `_userListPrev`, sockets and listeners, heart timers | join, leave, disconnect, heart time-out, rematch, close | rooms save all their players once; who is gone is removed; empty rooms close |
| Match result: `game/match_result.js` | rooms, roles and supervisors by room and by player | store, look up, delete | mappings end with their room |
| Event synchronisation: `game/sync_event_pool.js`, `supervisor/supervisor_helper.js`, `engine/engine_supervisor.js`, `cap_supervisor.js` (`onSyncLogicEvent`) | the pool's list, messages under way, the supervisor's queue and frame count | add, send every 5 s, stop, receive, run the queue | supervisors repeat what happened, in order, at the same frame; nothing is lost silently |
| Storage node: `storage/cap_storage.js`, `dbprovider_level.js`, `blockchain/node_contract.js`; reading: `cap_logic.js` (`read`), `engine_data.js` | level db, permissions with expiry, `write2ChainMap`, what a logic node remembers of players | appointment, read and write RPCs, read from chain, put on chain | a read after a save sees it; a read sees what two thirds of the stores agree on |
| Retry of joins: `game/enter_manager.js`, with the names of rooms in `game.js` | entry, timer and count per player, `_room2name` | add, retry, delete | a join is retried a bounded number of times and ends; it does not seat a player twice or in another room |
| Game code: `game/game_code.js` | loaded games | load with a second try, refresh | a game gets its latest code, and never goes back to an older one |
| Center client: `foundation/center_helper.js`, `cap_foundation.js` | registration | register and retry, calls | the node is registered in the end |
| Node core, transport, web sockets, RPC, system information, keys, packets | configuration, connections | dispatch, start, send | input and output |

How they interact: the center's messages reach `onAppointed` and `on_matched`;
a client's `room.join` goes through `GameMgr`, `Game`, `RoomMgr` and `Room` to
`Engine.enterRoom`, which awaits `read`; closing a room goes from any of them to
`Engine.onclose`, which starts one `write` per player and whose callbacks come
back to `EngineData`. Supervisors get `message_data_verify`, `sync_logic_event`
and answer `message_data_verified`; storage nodes answer two RPCs. Within a node
the components share `matchResult`, `engineData` and the manager objects.

The hard behaviours are: awaits between a check and its use (code, data, the
answers of supervisors); timers that outlive what they were set for; loops over
lists that the loop's own calls change; events of old connections; answers and
signatures that come late, not at all, or for another room; RPCs that are applied
although the caller has given up; and thresholds of more than two thirds.
`PROJECT.json` lists every such hazard at its line with the properties that
would catch it.

## Modules

| Module | Models | Runs |
|---|---|---|
| `RoomSave` | abstract: what saving a room promises | as a property of `tworooms` |
| `ConsensusWrite` | saving a room, which implements `RoomSave` | `tworooms`, `quorum`, `answered`; `orphaned` |
| `ConsensusWriteProofs` | theorems about it; the refinement | |
| `RoomLifecycle` | players, sockets and rooms of a logic node | `again`, `loading`; `ghost` |
| `RoomLifecycleProofs`, `ConnectionProofs` | theorems about it | |
| `Iteration` | facts the proofs need of loops and lists | |
| `GameCode` | the games' code in memory | as a part of `joining` |
| `JoinRetry` | joins and their retries, composed with `GameCode` | `joining` |
| `GameCodeProofs`, `JoinRetryProofs` | theorems about them | |
| `EventSync` | the logic node's events and its supervisors | `twoplayers`; `stuck` |
| `EventSyncProofs` | theorems about it | |
| `PlayerRecord` | abstract: a register of one player's data | as a property of `meets` |
| `UserStorage` | one player's data over several sessions, which implements `PlayerRecord` | `chainjob`, `meets` |
| `UserStorageProofs` | theorems about it; the refinement | |

Each `MC...` module instantiates one of them for TLC. The modules meet where one
abstracts the other: `ConsensusWrite` is the inside of `UserStorage`'s `Save`
(there supervisors approve or time out in one step) and follows
`RoomLifecycle`'s `saves` (there a save is a list of players); `EventSync` shows
the closing of `RoomLifecycle` from the supervisors' side. `JoinRetry` and
`RoomLifecycle` overlap in entering and leaving a room: the first has names, code
versions and retries, the second connections, lists and saves.

### ConsensusWrite

One logic node, its supervisors and the storage nodes of its players. A write is
named by its room and its place in the room's list. `SaveRoom` is
`_doSaveToStorage`: `write` for every entry of the list in one step, with the
re-entry check that refuses a key that is pending, its answer coming later by
`setImmediate` (`RefuseReentry`). `RequestArrives`, `VerificationJob` are the
supervisor; `CollectVerified` and `IgnoreVerified` are `onMessageDataVerified`,
which finds an entry by *key* (player, game, digest) and not by room, and counts
signatures against the supervisors of the room the *message* names. The RPC
carries the live data object (`rpcData`), which `GameChanges` may have changed
since its digest was taken. `StoreApplies` checks every signature against the
data and never counts them. `WriteSettles` is the end of `BB.all`, `Timer` the
30 s timer, which also knows only the key. `Callback` drops the room's
supervisors (`deleteRoomSupervisor`) before anything else. `ReportRoom` is
`saveUserToStorage`.

Abstractions: a digest stands for the datum it is the hash of; a signature for
the write it was asked for and its signer; an RPC is one value per write and
store. Messages may be lost and arrive in any order; they are not duplicated, as
the transport is one http request per message. The room's player list may name a
player twice (a player who left and came back).

`RoomSave` says what all this is for, without supervisors, signatures, keys,
timers or messages: a room asks once for its players' data to be saved; an
write that was sent is put by stores one by one, perhaps after it has ended; every write
ends once, "ok" only when a quorum has put it, "timeout" or "reentry" only when it
never reached storage; and the room is reported over when all its writes have ended,
one of them well. `ImplementsRoomSave` is the refinement: `key`, `answers` and `db`
are the same, a write is sent when its RPCs are, a store has applied it when the RPC
put the datum, and a room is over when its report was sent.

Properties: `StoredIsApproved`, `AnsweredAtMostOnce`, `TimedOutNeverStored`,
`SuccessIsDurable`, `ReportIsRoomQuorum`, `ReportedIsSaved`, `EveryWriteAnswered`,
`ImplementsRoomSave`. The first and `ReportIsRoomQuorum` state what the network promises
and not what the code counts: more than two thirds of the supervisors of *one* room,
each counted once, signed the datum, or the room hash, for that room (`Signatories`).
The code counts messages on whichever entry the key has. That comes to the same unless
two rooms save the same datum of a player (`Shared`), which is exempt: see *Findings*.

* `tworooms`: two rooms with one player, two supervisors, two stores, two data
  values: callbacks, timers, signatures and RPCs of two writes interleave, with
  equal keys from different rooms, the case the key was not made for. As long as the
  rooms save different data of the player, the signatures of one may not stand in for
  those of the other. Every step is checked to be one of `RoomSave`.
* `quorum`: four supervisors and four stores with one write, so that "more than
  two thirds" (three) is neither half of them nor all of them.
* `answered`: liveness, one room with two players and lists of up to two entries,
  so that a key may also meet itself through a player who is listed twice. The fairness is
  `setImmediate`, the timer and the end of `BB.all` (Node runs them), that every
  RPC ends somehow (http requests have time-outs), and that `ReportRoom` runs.
  Nothing is assumed of supervisors or of messages: they may stay silent. The
  run also has `ReportedIsSaved`, for which a room with several writes is needed.
* `orphaned`: the same with a second room, where it fails; see *Findings*.

### RoomLifecycle

All the managers of one logic node. A `User` or `Room` object is named by the
join request that made it, so that one player may own several `User` objects and
one room id several `Room` objects, as in the code. Handlers call each other, so
they are written as functions from the node's state to the node's state
(`DoLogout`, `LeaveRoom`, `CloseRoom`, `Complete`, ...) and an action applies
them to `Node`. A join is one step when the game's code and the player's data are
in memory (`Preloaded`), and three otherwise: `JoinArrives`, `CodeLoaded`,
`DataLoaded`, each continuing with what the code captured before its await
(`joinUser`, `joinRoom`). `SocketEvent` runs every listener the socket still has.
`CloseRoom` follows the loop of `Room.closeRoom` over a list that its own
`doLogout` shortens, the exception when `userMgr` does not know a player, and the
second closing that the last `leaveRoom` starts inside the first.

What the game sends (`GameSends`: `engine.broadcast`, `engine.send`) waits in `pending`
until everyone is in; then `_trySendRoomJoined` puts `room.joined` behind it and
`Start` sends all of it on, in the middle of the last player's join. A broadcast
carries the room's own list, not a copy, so that it is for whoever is there when it
is sent on. `inbox` is what was written to a socket, and nothing is written to one
that is closing (`PeerCloses`). A message may come at any time while a socket is open;
`talked` says whether a `User` object ever had an open one, so that its heart timer
may find that the last message is too long ago.

Not in the model: message texts, the message by which a join is refused, what a game
broadcasts in its `onclose`, `user.match`, which asks the center for a room, and joins
whose room name does not fit that of the room: they are retried, which is `JoinRetry`'s
subject.

* `again`: two players in one room, with code and data in memory; the first may
  join twice, the second time from a second socket, while events of the first
  socket are still to come.
* `loading`: the first player may join twice on one socket, and every join waits
  for code and data.
* `ghost`: what `DisconnectRemoves` says does not survive the awaits of `loading`, the
  first of them, on the code, included.

In `again` the game broadcasts a message and then sends one to the first player
(`Says`), before or after the start, or one before and one after; in the other runs it
is silent. `HeardInOrder` says that no connection gets a message twice or out of order,
`StartReachesAll` that nobody misses `room.joined`, or what was sent to him by name or
broadcast before he came. It looks at the connection the player's `User` object has when
the room starts, which after a reconnection is the new one; a socket left behind excuses
nothing. Excused are players whose `User` has no open connection by then, and players
in the room without a `User` object, which `again` does not reach (with two rooms a late
event of an old connection may remove it).

`DisconnectRemoves`, `EmptyRoomCloses` and `StartReachesAll` are checked with everything
in memory (`again`), `SavedAtMostOnce` and `StartedRoomSavesAll` in both cases.

Three join requests suffice for a repeated join or a reconnection next to a
normal player; every name is used up once, which bounds the state.
`CHECK_DEADLOCK FALSE`: when every socket is closed and every join done, nothing
happens any more.

### GameCode

`game_code.js`: `getGame` of a game that is not in memory loads it (`GetGame`), once
more when that fails (`TriesAgain`), and gives up then (`GivesUp`). Joins do not wait
for one another, so a game may be loaded several times at once. `RefreshStarts`,
`RefreshGets` and `RefreshFails` are the refresh, which awaits each load *inside* its
iteration over the map: `order` is the map's order, and a round goes on behind the
game it has just loaded (`GoesOn`), among whatever games are there by then. A load
brings some version between the one that was the latest when it asked and the
latest there is (`Delivered`). `Publish` and `Ages` are the world and the clock.

### JoinRetry

`onReqRoomJoin`, `_doEnter`, `Game.enter`, `RoomMgr.enterRoom`, `EnterManager` and what
leaving and closing do to them. A join is one of `Calls`, a record of what the handler
captured before its await: `Begins` runs it up to the await on the code, or, when the
code is there, on to `Enter`, the whole of `Game.enter` up to the await on the player's
data. `DataComes` and `DataFails` continue it with the `Room` object it has, which may
no longer be the one in `roomMgr` (`alive`). `Ends` is the end of every join: the entry
in `EnterManager` when it is to be retried, and the rest of `_retryEnter` when it was a
retry. `Leaves` is a leave, or `on_matched` taking the player out of the old room; the
last one closes the room under the joins that load into it. `RetryFires` is the timer,
which does not wait for the retry before.

The names of rooms, and that a hash may stand for the default name, are data only as
far as they are compared. The Game object keeps the code it was made with (`running`),
so that a room the new version has may not be known to it. `Code` is an instance of
`GameCode`, with the joins as its joiners; `CodeGetsLatest` and `CodeVersionsGrow` are
its properties, checked here where joins and refresh interleave.

* `joining`: two players are matched into one room, the first also into a second; the
  first joins twice, with the hash, the second once with a name the first version
  of the game does not have. Two joins may run at once (`Calls`), enough for a retry to
  overlap another retry or a request; four retries of a player (`MaxTries`) are one
  more than the code allows; two versions and one round of the refresh.

`slipped` and `torn` remember where the code guarantees nothing: players two of whose
joins ran at once (or one of whose retries threw), and rooms closed while the join
that made them was loading. The fairness is that timers fire (`later.setInterval`), that
loads and reads end some way, and, for `CodeGetsLatest`, that the load which the
refresh repeats for ever is not refused every time.

### EventSync

One room on the logic node and on each of its supervisors. Events are named by
the order in which they happened; `sent` and `events` remember. `Tick` is
`_onSyncTimeout` up to its await, `Settle` its continuation, which empties the
list; `SendsRest` is `stop`. `Closes` is the closing with what comes before (the
`leave_room` events of the players that the shrinking loop reaches) and after
(the client message upon which the game closed the room). With one player the logging
out closes the room inside the closing, and the outer one goes on to close it again:
a second `engine_close`, for a pool that is stopped (`SecondClose`). The loop starts with
the room and goes on after the closing (`Loop`), adding events to the stopped pool.
A closing in which `closeRoom` throws, at a player `userMgr` does not know, stops before
pool and room are closed: here these are the leavings before it (`LeaveRoom`);
`RoomLifecycle` has the exception itself. A player's arrival is a
message of its own; on the supervisor it makes the room (`Arrives`) and loads the
player's data (`Loaded`). `DoLoop` is the supervisor's loop over its queue, run
for every event received.

`ExecutedInStep` speaks of behaviours in which no list was sent while an earlier
one was on its way (`overlapped`): otherwise the http requests may overtake each
other and `stop` may repeat events, which the code does nothing against.
`OnlyUnsafeAreLost` says precisely which events may be lost: those added while a list
is being sent, or after the pool was stopped. `stuck` shows an event that waits for
ever; it is a finding.

Bounds: `MaxEvents` events (4: a message before a sync, one during it, the leaving
and the closing), `MaxTicks` time-outs of the pool before the one `stop` replaces, `MaxFrame` rounds of the loop. A player enters once; `room.startgame`
is no event, as in the code. What the supervisor's own game code does is taken
from the logic node's events. `CHECK_DEADLOCK FALSE`: the bounds are used up.

### UserStorage

One player, numbered sessions, each with a logic node and supervisors; version
`a` is what session `a` made of the data, `Absent` what a store answers that has no
data or cannot read them, and `Empty` the record that is begun then. The center appoints a session once the
player has entered the room before; games, saves, reads, late RPCs and chain
jobs of several sessions overlap. `OnAppointed`, `EthAnswers`, `EthPut` are the
storage node's `onAppointed` with its await; `Permitted` is `checkPermission`
with expiry; `Enter` uses what the node remembers of the player or asks every
store; `ReadResolves` is the vote of `read`; `Save`, `StoreWrites`,
`SaveSettles` the storage side of `write`; `JobRequests` and `CenterAnswers` the
job that puts data on the chain.

`OnAddPermission` is a permission the center adds later. `StoreReadsNothing` is a
data base that fails, which `dbprovider_level.js` turns into "no data".

* `chainjob`: four stores and one session that reads and plays but does not save
  (`SpecNoSave`), so that three stores must agree and a minority of one or two matters.
  All four may answer from their data base, two of them with nothing because it fails,
  and all four may be overwritten with what the chain has, before they answer, after,
  or not at all. One of them (`Busy`; the others are interchangeable) has permissions that
  expire, one that is added late, and the job that puts the data on the chain.
  `ReadIsSteady`: what two stores had all the while cannot be outvoted by the other two,
  although these may be wrong in the same way.
* `meets`: two stores, one of which may fail to read during a read, three sessions on
  different nodes and no chain: a read after a successful save is not older, or fails,
  and every step is one of `PlayerRecord`. More than two thirds of two stores are both;
  what four and more add, that two such sets meet, is proved (`QuorumsMeet`). The
  sessions come in turn (`SpecInTurn`): the second is entered when the first is through
  (`InTurn`) and all its notices have arrived (`HeardInTurn`, a bound), the third at any
  time after it is appointed.

`PlayerRecord` says what this is for, without stores, calls, quorums and permissions: a
session begins with data that were saved, no older than the last save that was answered
before it was entered and no older than what an earlier session began with, or it does
not begin; it saves what it began with or its own; and a save that is not answered may
still be seen. `ImplementsRecord` is the refinement: the stages are `phase`, what is
saved is `saving`, and the stores, the calls and what a node remembers are not seen.

`CHECK_DEADLOCK FALSE`: the sessions end.

## What is proved

The theorems hold for every finite set of supervisors, stores and rooms and for every
number of players, values, sessions, joins, games and versions. The assumptions are
those of the modules (`ConstantsAssumption`, `StorageAssumption`,
`JoinRetryAssumption`, `GameCodeAssumption`, `EventSyncAssumption`,
`LifecycleAssumption`): finite sets of nodes, well-typed constants, joins and rounds of
the refresh with different names. Every invariant a passing run checks is proved; a
theorem that needs more names it in its statement, and the text below says why.

* `TypeCorrect` (six modules). In `ConsensusWrite` the type invariant includes
  that no two pending writes have the same key, and is inductive only with
  `CalledInv`: a pending write is waiting or writing, and its room was saved.
* `AnsweredOnce` and `TimeoutIsFinal`: `AnswersInv` relates the entry, the status
  and the answers of a write. A write that has not started, or is being written,
  or still has its entry, is unanswered; one answered "timeout" never left "wait"
  and has no entry; and only a write that started has RPCs. So the timers other
  writes of the same key left behind may take its entry, but never answer it twice.
* `StoredApproved`: what a store holds, and what an RPC that passes the signature
  check carries, is the digest of a write that was started and whose signers vouch for
  that key (`ApprovalInv`). That the signers are different supervisors of the write's own
  room takes `OwnInv`, below.
* `RefinesRoomSave`: initial states map to initial states, and every step of the
  protocol to one of `RoomSave` or a stutter. It needs, besides the above, that a write
  has a key exactly when it was called (`KeyInv`), and that a room is reported only
  when no callback is missing. `SuccessDurable` and `ReportedSaved` rest on `SavedInv`: a
  store that put a write's datum has it or that of a later write which was sent, a write answered "ok"
  was put by enough stores, and the writes of a reported room have ended.
* `ReportQuorum`: only writes that asked have messages and signatures (`AskedInv`),
  those of a room have different keys (`OwnKeyInv`), a write that started had more than
  a threshold of signatures (`OwnQuorumInv`), and a report holds those of one write of
  its room (`ReportedInv`). So unless another room saves the same datum, the signatures
  on an entry are the room's own, and no supervisor has two of them (`OwnSigners`,
  `OneEach`): the count of messages is one of supervisors. That a second room may begin
  to save the datum at any time only adds to what is exempt (`SharedKept`).
* `ReadsAreSteady`: `ReadInv` says that a store whose version has not changed
  since a session's read began can only have replied with that version. If a version
  resolves a read, more than two thirds of the stores have brought it; a third of the
  stores and more than two thirds meet (`ThirdBlocks`), so it is the third's version.
  `QuorumsMeet`, that two sets of more than two thirds of the stores have one in common,
  is what the theorems on saves rest on (arithmetic in `TooManyMeet`, `TwoThirds`).
* `SavedInTurnKept`: `NothingSavedIsLost` for any number of sessions and stores when
  nothing comes from the chain, every session has a node of its own and fewer stores
  fail than a read needs (`FreshStart`), and a session, other than the last, is entered
  only when all that was saved before has arrived (`InTurn`). Without `InTurn` TLC finds, with
  three sessions, that a late save of an older session replaces a newer one. With two
  sessions there is nothing to overlap with, and `TwoSessionsKept` needs `FreshStart`
  only. `meets` is a case of the first.
* `KeepsRecord`: under the same hypotheses `UserStorage` implements `PlayerRecord`, and
  with two sessions without `InTurn` (`TwoSessionsKeepRecord`). `RegisterInv` has three
  parts. `OriginInv`: stores have and bring only what was saved, and a session plays and
  saves the version it began with or its own. `EchoInv`: while a session other than the
  last reads, nothing is written, so a store has what it brought. `FloorInv`: what a
  session has begun with is `Settled`, that is, more than two thirds of the stores have
  it or something newer, also among those a later session can still count on, and
  nothing older is played or on its way. So a read that resolves, failed data bases and
  late writes included, meets a store of that set (`ReadIsSettled`).
* `OnlyUnsafeLost` and `InStepAlways` (`EventSync`): besides the types (`LogicOK`,
  `WireOK`, `SupsOK`), `IInv` says that what is in the pool during a sync was sent or is
  unsafe (`PoolInv`), that all lists are in the order of the events (`OrderInv`), that
  unless lists overlapped only the last one is on its way and what waits in the pool is
  later than all that was sent (`OneListInv`), and that then each supervisor has executed
  the beginning of what it was sent, at the right frames, with the rest in its queue or
  on its way (`StepInv`).
* `NeverOlder` (`GameCode`): `GrowInv` says that as long as the loads of a game have
  not overlapped, its load under way is the only one and asked for nothing older than
  what is in memory. `RunsGameCode` shows that every behaviour of the joins is one of
  `GameCode`, and `CodeGrows` carries the property over.
* `SeatsRight`, `RetriesBounded`, `NamesRight` (`JoinRetry`): the invariant `Inv`
  has a part per player and one per room. `SeatOf`: a player whose joins have not
  overlapped has one join at most under way, and no seat while it waits for data.
  `RetryOf`: the count of the entry is the number of retries that have failed, one less
  than were begun while a retry runs. `NameInv`: a room that a join has made, and that
  was not closed meanwhile, runs with the name this join will give it. A step concerns
  one player (`StepFor`); `SameKeeps` and `OthersSame` leave the others alone.

`RoomLifecycleProofs` has the theorems on players, sockets and rooms, `ConnectionProofs`
the last two of them. Handlers are
functions from `Node` to `Node` that call each other, so its lemmas go up the calls:
each says what one handler keeps of a node, then what its callers keep. Two of the
handlers are loops (`closeRoom` over its own list, `Start` and the broadcasts over
the messages and players). What a loop does for every length of the list is induction,
and the library's induction theorems are out of the prover's reach; `Iteration` proves
what is needed from the least counterexample instead: what the first turn has and every
turn keeps, the last turn has (`EveryTurn`). The invariants, each inductive:

* `LifeInv`, for `TypeCorrect`, `SavedOnce` and `StartedSavesAll`: the node is one of
  `GoodNodes`. There objects are filed under their own names (`FiledInv`), a `Room` that was
  not made yet is blank (`BlankInv`), who is in a room has visited it (`VisitInv`),
  everyone has visited one that has started (`FullInv`), a room is saved when it is closed
  and has no role afterwards (`OnceInv`), what was saved of a room that had started is
  complete (`CompleteInv`), and only rooms the node was told of occur (`KnownInv`).
  `JoinsInv` is what the joins that wait hold on to.
* `EmptyCloses`: the relations `SameRooms`, `Keeps`, `EmptiesNone` and `Closes` between
  a node before and after a handler say that a room which becomes empty is closed in the
  same step. Without `Preloaded` it is proved as long as no join has failed for want of
  the player's data; `PreloadedEmptyCloses` needs no such condition.
* `HeardInv`, for `HeardInTurn`: an open socket is that of one `User` (`OwnSocks`) who has
  one seat (`SeatsOnce`), what waits for the start is in the order in which it was sent
  (`WaitInv`), what a socket got came before it (`BoxInv`, `OrderInv`). It needs
  `Preloaded`: a player two of whose joins load at once can be seated twice and hears a
  broadcast twice. `SaysOnce`, that the game names nobody twice in one message,
  is the game's part.
* `SocksInv`, for `DisconnectedGone`: a user who has a place has an open socket that will
  tell (`CalmInv` with `HomeInv`, `ListenInv`, `HungInv`; `UserInv`; `SeatInv`). It needs
  `Preloaded` (see `ghost`) and that no player is appointed for two rooms
  (`OneRoomEach`): with two, TLC finds the late event of the findings below.
* `TellInv`, for `StartReaches`: what was sent waits until the start (`HeldInv`), and only a
  room this node runs sends (`SentInv`). That whoever is to hear of a room that starts
  has heard it on the connection the player's `User` has (`Met`) is a relation between a
  node before a handler and after it (`Reaches`), carried up the calls: a handler loses
  no message that waits (`Carries`), and what it sends afterwards takes nothing out of an
  inbox and changes nobody's connection (`Louder`).

Only model-checked: the liveness properties (`EveryWriteAnswered`, `RetriesEnd`,
`CodeGetsLatest`: fairness and ENABLED are out of the prover's reach).

## Findings

Three runs show where the code does not keep what its comments or notes say; each
is described in `PROJECT.json` with its line.

* `orphaned`: a write's RPCs outlast its timer, which takes its entry; another room
  begins a write of the same player and data; and when the RPCs end, the entry that is
  deleted by key is the later write's (`cap_logic.js:155`), whose own timer then finds
  nothing: it is never answered.
* `ghost`: a connection closes while a join waits for the game's code; the join then
  makes a `User` object on it (`game_mgr.js:132`, `game.js:50`), which nothing removes: the
  close event has been, and the heart timer does nothing before a first message. When
  the data have come, the player is put into the room as well (`engine.js:217`).
* `stuck`: an event that waits for a player's data is not tried again when the data
  are there (`engine_supervisor.js:55`).

The passing runs state their properties within limits that the same code sets;
outside them the modules have these behaviours, which no run lists:

* A write with enough signatures waits for its timer when the callback of another
  player's write has dropped the room's supervisors (`engine_data.js:187`).
* When two rooms save the same datum of a player, the signatures for both are pushed on
  the one entry (`cap_logic.js:113`): one supervisor counts twice, the data may be stored
  and "ok" answered with fewer supervisors than more than two thirds, and a room may be
  reported with signatures over the other room's hash. `StoredIsApproved` and
  `ReportIsRoomQuorum` say that it takes this for it to happen.
* With two rooms, a late event of an old connection removes the `User` of the new
  one (`user.js:198`) and the player stays in a room without a connection:
  `DisconnectRemoves` is checked with one room, and proved for any number of rooms as
  long as no player is appointed for two of them. Such a player hears nothing when the
  room starts, and `StartReachesAll` excuses it.
* A room that is closed while the data of its players load is entered and started all
  the same; what was broadcast before is for nobody by then, as the list it was meant
  for is empty (`room.js:77`): `StartReachesAll` speaks of players whose data are there.
* A room whose maker's data cannot be loaded stays open and empty (`game.js:87`).
* `closeRoom` logs out every second player only (`room.js:77`).
* The loop of a closed room goes on (`engine.js:278`), and what the game then sends to a
  player by name still reaches him (`room.js:136`), wherever he is by then.
* What a game broadcasts before the room starts reaches the players before `room.joined`
  (`game_mgr.js:196`).
* The mapping of a room is never deleted: `deleteResult` returns early exactly when
  there is one (`match_result.js:44`).
* A player who returns to a logic node plays on what the node remembers
  (`engine_data.js:23`), and a store that is appointed puts what the chain has over
  newer data (`cap_storage.js:94`): `NothingSavedIsLost` and `ImplementsRecord` are checked with a
  node per session and nothing on the chain. A save that is late overwrites that of a later
  session (`cap_storage.js:254`).
* Events that happen while `_onSyncTimeout` awaits are thrown away with the list that
  was sent (`sync_event_pool.js:62`), and those of a stopped pool are never sent:
  `OnlyUnsafeAreLost` speaks of the others.
* `EnterManager.delete` deletes nothing (`enter_manager.js:39`): once a player's retries
  have ended, a join that is to be retried "later" (`game_mgr.js:106`) never is. A retry
  that is itself to be retried counts as a success, and every retry asks for what was
  asked first, on the socket of that time.
* Two joins of a player, or a retry that overlaps the one before, may seat the player
  twice or in two rooms, and lose a count: `SeatIsWhereUserIs` and `AtMostThreeRetries`
  speak of the players this did not happen to.
* A join is not compared with the room's name while the join that made it loads
  (`game.js:88`); a leave during a load does nothing; and a room that is closed
  meanwhile leaves `User.roomId` set.
* A game that is refreshed does not reach the Game object, which keeps the code it was
  made with; loads that overlap may leave the older code in memory
  (`game_code.js:47`).
* Presence is posted to the center unordered and once (`user.js:334`);
  `post_to_center` calls its callback again when the callback throws
  (`center_helper.js:244`).
* When more than two thirds of the data bases fail to read, the player begins with an
  empty record (`dbprovider_level.js:74`).

## Not modelled

Dispatch, start-up, transport, the web socket server, the two RPC queries, keys,
packets, system information and the child process keep no state of interest.
`src/lib/common` is a submodule that is not in the repository: hashing and
signing are taken as injective and unforgeable. `approveUserData` returns 1 in
its first line, so supervisors approve whatever they are asked.

## Plan

Done, in this order: `ConsensusWrite` with its proofs, `RoomLifecycle`,
`EventSync`, `UserStorage` with its proofs, `RoomSave` with the refinement,
`GameCode` and `JoinRetry` with their proofs, the proofs of `EventSync` and
`RoomLifecycle`, what was left of `ConsensusWrite` and `UserStorage`, and
`PlayerRecord` with its refinement.

Next:

1. In `RoomLifecycle`, a second room again, with the properties that hold there, and
   messages in the runs that load.
2. A composition of `EventSync` and `ConsensusWrite` for what supervisors could
   compare if `approveUserData` did compare.
