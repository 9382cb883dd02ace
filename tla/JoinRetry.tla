----------------------------- MODULE JoinRetry ------------------------------
(***************************************************************************)
(* Joins of a game whose code is loaded on demand, and their retries:      *)
(*                                                                         *)
(*   game_mgr.js       onReqRoomJoin, _doEnter                             *)
(*   game.js           enter, with the names of rooms                      *)
(*   enter_manager.js  add, _retryEnter                                    *)
(*   room_mgr.js, room.js, engine.js   creating, entering, leaving,        *)
(*                                     closing when the last one leaves    *)
(*                                                                         *)
(* It composes GameCode: a join that finds no code in memory loads it, and *)
(* goes on when it is there.  Players keep their connections here;         *)
(* disconnects, and what a closing saves, are RoomLifecycle's.             *)
(***************************************************************************)
EXTENDS Naturals, Sequences

CONSTANTS
  Players, Rooms, Names,
  Game, Games, \* the game that is played, of the games there are
  Expect,      \* of a room: the players it is appointed for
  Offers,      \* of a version of the game: the rooms its code has
  Default,     \* the first room of the game's config
  Hash,        \* a room name as long as a room hash: it stands for Default
  Asks,        \* of a player: the room names the player asks for
  MaxJoins,    \* of a player, bound: the requests to join
  MaxTries,    \* bound: the retries of a player
  Calls,       \* bound: the joins that run at the same time
  Refreshers, MaxVersion,  \* bounds of GameCode
  NoRoom, NoName

VARIABLES
  published, code, order, old, load, crossed,  \* GameCode
  running,     \* the version the Game object was made with; 0: there is none
  appointed,   \* the rooms this node was appointed for
  result,      \* _user2room
  name,        \* _room2name
  runs,        \* of an open room: its roomName; NoName when it is not open
  seats,       \* of a room: how often its engine has a player in _userList
  at,          \* User.roomId
  known,       \* the players whose data engineData has
  call,        \* the joins under way
  entry,       \* EnterManager._users: what a player asked for, and the count
  timer,       \* the players whose retry timer runs
  joins,       \* counts the requests of a player
  tried,       \* history: the retries of a player
  slipped,     \* history: players two of whose joins ran at once, or one threw
  torn         \* history: rooms that were closed while a join into them was loading

codeVars == <<published, code, order, old, load, crossed>>
roomVars == <<running, name, runs, seats, at, known, torn>>
retryVars == <<entry, timer>>
vars == <<codeVars, roomVars, retryVars, appointed, result, call, joins, tried, slipped>>

Code == INSTANCE GameCode WITH Joiners <- Calls

ASSUME JoinRetryAssumption ==
  /\ Code!GameCodeAssumption /\ Game \in Games
  /\ Expect \in [Rooms -> SUBSET Players]
  /\ Offers \in [Code!Versions -> SUBSET Names] /\ Default \in Names /\ Hash \notin Names
  /\ Asks \in [Players -> SUBSET (Names \cup {Hash})]
  /\ MaxJoins \in [Players -> Nat] /\ MaxTries \in Nat /\ Calls \subseteq Nat
  /\ NoRoom \notin Rooms /\ NoName \notin Names

\* A join: who asks for what; whether it is a retry, and the count it read; the room
\* it enters, once it waits for the player's data; whether it created that room and
\* whether the Room object is still the one in roomMgr.
Join == [player : Players, asks : Names \cup {Hash}, retry : BOOLEAN, count : Nat,
         room : Rooms \cup {NoRoom}, makes : BOOLEAN, alive : BOOLEAN]

Nobody == [p \in Players |-> 0]

Init ==
  /\ Code!Init /\ running = 0
  /\ appointed = {} /\ result = [p \in Players |-> NoRoom]
  /\ name = [r \in Rooms |-> NoName] /\ runs = [r \in Rooms |-> NoName]
  /\ seats = [r \in Rooms |-> Nobody] /\ at = [p \in Players |-> NoRoom]
  /\ known = {} /\ torn = {}
  /\ call = [c \in Calls |-> << >>]
  /\ entry = [p \in Players |-> << >>] /\ timer = {}
  /\ joins = Nobody /\ tried = Nobody /\ slipped = {}

-----------------------------------------------------------------------------
(* EnterManager, and how joins end.                                        *)

IsOpen(r) == runs[r] # NoName
Under(p)  == {c \in Calls : call[c] # << >> /\ call[c].player = p}

\* LastTry when the limit is not looked at.
TriesForEver(k) == FALSE

\* Has the retry k failed often enough?
LastTry(k) == k.count + 1 >= 3

\* Counted when the count is not put back.
CountsNothing(k) == k.count

Counted(k) == k.count + 1

\* add: the timer of a player is started once; the entry stays for ever, and what the
\* player asked for with it.
AddRetry(k) ==
  IF entry[k.player] = << >>
    THEN /\ entry' = [entry EXCEPT ![k.player] = [asks |-> k.asks, count |-> 0]]
         /\ timer' = timer \cup {k.player}
    ELSE UNCHANGED retryVars

\* The join k ends as out says, and with it the rest of _retryEnter: a retry that is to
\* be retried counts as a success, and one that throws changes nothing.
Ends(c, k, out) ==
  /\ call' = [call EXCEPT ![c] = << >>]
  /\ IF out = "retry" /\ ~k.retry THEN AddRetry(k)
     ELSE IF ~k.retry \/ out = "thrown" THEN UNCHANGED retryVars
     ELSE IF out # "failed" \/ LastTry(k)
       THEN timer' = timer \ {k.player} /\ UNCHANGED entry
       ELSE /\ entry' = [entry EXCEPT ![k.player].count = Counted(k)]
            /\ UNCHANGED timer

-----------------------------------------------------------------------------
(* Entering a room.                                                        *)

\* _convertRoomName.
RoomName(asks) == IF asks = Hash THEN Default ELSE asks

\* NameFits that is not looked at.
AnyNameFits(r, n) == TRUE

\* Game.enter: the room has no name yet, or the one that is asked for.
NameFits(r, n) == name[r] \in {NoName, n}

\* FreeFor when the player's other room is not looked at.
FreeForAll(p, r) == TRUE

\* Game.enter and RoomMgr.enterRoom: the player is not in another room, nor, when the
\* room is to be created, in this one.
FreeFor(p, r) == at[p] = NoRoom \/ (IsOpen(r) /\ at[p] = r)

\* GetsSeat when rooms that are over keep their players.
GetsSeatAnyway(k) == TRUE

\* The player is pushed to the list of the Room object the join has: when the room was
\* closed, nobody sees that list any more.
GetsSeat(k) == k.alive

\* The player's data is there: engine.enterRoom and RoomMgr.enterRoom go on.
Seated(k) ==
  /\ seats' = IF GetsSeat(k) THEN [seats EXCEPT ![k.room][k.player] = @ + 1] ELSE seats
  /\ at' = [at EXCEPT ![k.player] = k.room]
  /\ known' = known \cup {k.player}
  /\ name' = IF k.makes THEN [name EXCEPT ![k.room] = RoomName(k.asks)] ELSE name

\* Game.enter of the join k with version v of the game, up to its end or to the await
\* on the player's data.
Enter(c, k, v) ==
  LET r   == result[k.player]
      n   == RoomName(k.asks)
      new == [k EXCEPT !.room = r, !.makes = ~IsOpen(r), !.alive = TRUE]
      Stays(out) == Ends(c, k, out) /\ UNCHANGED <<name, runs, seats, at, known>>
  IN /\ running' = v /\ UNCHANGED torn
     /\ IF ~NameFits(r, n) THEN Stays("retry")
        ELSE IF \/ ~FreeFor(k.player, r) \/ seats[r][k.player] > 0
                \/ ~IsOpen(r) /\ n \notin Offers[v]
          THEN Stays("failed")
        ELSE /\ runs' = IF new.makes THEN [runs EXCEPT ![r] = n] ELSE runs
             /\ IF k.player \in known
                  THEN Seated(new) /\ Ends(c, k, "done")
                  ELSE /\ call' = [call EXCEPT ![c] = new]
                       /\ UNCHANGED <<name, seats, at, known, retryVars>>

\* _doEnter up to the first await: nobody waits when the game's code is in memory.
Begins(c, k) ==
  /\ call[c] = << >> /\ \A d \in Calls : d < c => call[d] # << >>
  /\ slipped' = slipped \cup {p \in {k.player} : Under(p) # {}}
  /\ IF code[Game] # 0
       THEN /\ Enter(c, k, IF running = 0 THEN code[Game] ELSE running)
            /\ UNCHANGED codeVars
       ELSE /\ Code!GetGame(c, Game)
            /\ call' = [call EXCEPT ![c] = k]
            /\ UNCHANGED <<roomVars, retryVars>>

-----------------------------------------------------------------------------
(* The steps.                                                              *)

\* onAppointed: the last room of a player wins.
Appoint(r) ==
  /\ r \notin appointed
  /\ appointed' = appointed \cup {r}
  /\ result' = [p \in Players |-> IF p \in Expect[r] THEN r ELSE result[p]]
  /\ UNCHANGED <<codeVars, roomVars, retryVars, call, joins, tried, slipped>>

\* A room.join of a player this node is the logic node of.
Request(c, p, asks) ==
  /\ result[p] # NoRoom /\ joins[p] < MaxJoins[p]
  /\ joins' = [joins EXCEPT ![p] = @ + 1]
  /\ Begins(c, [player |-> p, asks |-> asks, retry |-> FALSE, count |-> 0,
                room |-> NoRoom, makes |-> FALSE, alive |-> FALSE])
  /\ UNCHANGED <<appointed, result, tried>>

\* The retry timer of a player: it does not wait for the retry before.
RetryFires(c, p) ==
  /\ p \in timer /\ tried[p] < MaxTries
  /\ tried' = [tried EXCEPT ![p] = @ + 1]
  /\ Begins(c, [player |-> p, asks |-> entry[p].asks, retry |-> TRUE,
                count |-> entry[p].count,
                room |-> NoRoom, makes |-> FALSE, alive |-> FALSE])
  /\ UNCHANGED <<appointed, result, joins>>

\* The game's code comes: the join goes on, with what the Game object has if another
\* join has made it by now.
CodeComes(c, v) ==
  /\ call[c] # << >> /\ Code!JoinGets(c, v)
  /\ Enter(c, call[c], IF running = 0 THEN v ELSE running)
  /\ UNCHANGED <<appointed, result, joins, tried, slipped>>

CodeAgain(c) ==
  /\ Code!TriesAgain(c)
  /\ UNCHANGED <<roomVars, retryVars, appointed, result, call, joins, tried, slipped>>

CodeFails(c) ==
  /\ Code!GivesUp(c)
  /\ Ends(c, call[c], "failed")
  /\ UNCHANGED <<roomVars, appointed, result, joins, tried, slipped>>

WaitsForData(c) == call[c] # << >> /\ call[c].room # NoRoom

\* The join that created its room looks it up again: when it is closed by then,
\* _trySendRoomJoined throws.
DataComes(c) ==
  /\ WaitsForData(c)
  /\ Seated(call[c])
  /\ LET throws == call[c].makes /\ ~IsOpen(call[c].room)
     IN /\ Ends(c, call[c], IF throws THEN "thrown" ELSE "done")
        /\ slipped' = IF throws THEN slipped \cup {call[c].player} ELSE slipped
  /\ UNCHANGED <<codeVars, running, runs, torn, appointed, result, joins, tried>>

\* The room gets its name all the same.
DataFails(c) ==
  /\ WaitsForData(c)
  /\ Ends(c, call[c], "failed")
  /\ name' = IF call[c].makes THEN [name EXCEPT ![call[c].room] = RoomName(call[c].asks)]
             ELSE name
  /\ UNCHANGED <<codeVars, running, runs, seats, at, known, torn, appointed, result, joins,
                 tried, slipped>>

\* room.leave at the end of a round, or on_matched: the last one closes the room, and
\* takes it from under the joins that are loading into it.
Leaves(p) ==
  LET r    == at[p]
      left == [seats[r] EXCEPT ![p] = @ - 1]
  IN /\ r # NoRoom /\ IsOpen(r) /\ seats[r][p] > 0
     /\ at' = [at EXCEPT ![p] = NoRoom]
     /\ seats' = [seats EXCEPT ![r] = left]
     /\ IF left # Nobody THEN UNCHANGED <<runs, call, torn>>
        ELSE LET loading == {c \in Calls : WaitsForData(c) /\ call[c].room = r}
             IN /\ runs' = [runs EXCEPT ![r] = NoName]
                /\ call' = [c \in Calls |-> IF c \in loading
                                            THEN [call[c] EXCEPT !.alive = FALSE] ELSE call[c]]
                /\ torn' = IF \E c \in loading : call[c].makes THEN torn \cup {r} ELSE torn
     /\ UNCHANGED <<codeVars, running, name, known, retryVars, appointed, result, joins,
                    tried, slipped>>

\* What GameCode does by itself.
CodeChanges ==
  /\ Code!OtherSteps
  /\ UNCHANGED <<roomVars, retryVars, appointed, result, call, joins, tried, slipped>>

Next ==
  \/ \E r \in Rooms : Appoint(r)
  \/ \E c \in Calls :
       \/ \E p \in Players : RetryFires(c, p) \/ \E asks \in Asks[p] : Request(c, p, asks)
       \/ \E v \in Code!Versions : CodeComes(c, v)
       \/ CodeAgain(c) \/ CodeFails(c) \/ DataComes(c) \/ DataFails(c)
  \/ \E p \in Players : Leaves(p)
  \/ CodeChanges

Spec == Init /\ [][Next]_vars

\* Timers fire, and what a join waits for comes or fails.
Fairness ==
  /\ \A p \in Players : WF_vars(\E c \in Calls : RetryFires(c, p))
  /\ \A c \in Calls :
       /\ WF_vars(CodeAgain(c) \/ CodeFails(c) \/ \E v \in Code!Versions : CodeComes(c, v))
       /\ WF_vars(DataComes(c) \/ DataFails(c))

FairSpec == Spec /\ Fairness /\ Code!RefreshFairness

-----------------------------------------------------------------------------
(* Properties.                                                             *)

\* Every variable keeps its type; who has a retry timer has an entry; only joins that
\* wait load code; and a closed room has nobody in it.
TypeOK ==
  /\ Code!TypeOK
  /\ running \in {0} \cup Code!Versions /\ (running # 0 => code[Game] # 0)
  /\ appointed \subseteq Rooms /\ result \in [Players -> Rooms \cup {NoRoom}]
  /\ name \in [Rooms -> Names \cup {NoName}] /\ runs \in [Rooms -> Names \cup {NoName}]
  /\ seats \in [Rooms -> [Players -> Nat]] /\ at \in [Players -> Rooms \cup {NoRoom}]
  /\ known \subseteq Players /\ slipped \subseteq Players /\ torn \subseteq Rooms
  /\ DOMAIN call = Calls
  /\ \A c \in Calls : call[c] # << >> => call[c] \in Join
  /\ \A c \in Calls : load[c] # << >> <=> call[c] # << >> /\ call[c].room = NoRoom
  /\ DOMAIN entry = Players
  /\ \A p \in Players : entry[p] # << >> => entry[p] \in [asks : Names \cup {Hash}, count : Nat]
  /\ timer \subseteq {p \in Players : entry[p] # << >>}
  /\ joins \in [Players -> Nat] /\ tried \in [Players -> Nat]
  /\ \A r \in Rooms : ~IsOpen(r) => seats[r] = Nobody

\* enter_manager.js: a player's join is retried three times at most, unless joins of the
\* player overlap or a retry throws: then a count is lost.
AtMostThreeRetries == \A p \in Players \ slipped : tried[p] <= 3

\* The retries of a player end, under the same condition.
RetriesEnd == \A p \in Players : p \in timer ~> p \notin timer \/ p \in slipped

\* A player has one seat at most, in the room the player's User names, unless joins of
\* the player overlap: leaving, rematching and the closing of rooms do not disturb it.
SeatIsWhereUserIs ==
  \A p \in Players \ slipped : \A r \in Rooms :
    seats[r][p] <= 1 /\ (seats[r][p] = 1 => at[p] = r)

\* The name that joins are compared with is the name of the room, unless it was closed
\* while the join that had created it was loading.
NamesAgree ==
  \A r \in Rooms \ torn : IsOpen(r) /\ name[r] # NoName => name[r] = runs[r]

\* game_code.js: the code the joins share is never replaced by an older version, unless
\* loads of the game overlapped.
CodeVersionsGrow == Code!VersionsGrow

\* game_code.js: the refresh brings the last version in the end.
CodeGetsLatest == Code!GetsLatest
=============================================================================
