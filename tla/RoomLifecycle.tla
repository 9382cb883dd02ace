--------------------------- MODULE RoomLifecycle ----------------------------
(***************************************************************************)
(* Players, their sockets and their rooms on a logic node:                 *)
(*                                                                         *)
(*   cap_logic.js     onAppointed, on_matched                              *)
(*   match_result.js  the maps from players to rooms and roles             *)
(*   game_mgr.js      onReqRoomJoin, _doEnter, _trySendRoomJoined          *)
(*   game.js          enter                                                *)
(*   user.js, user_mgr.js    User: socket events, heart timer, doLogout    *)
(*   room.js, room_mgr.js, engine.js    entering, leaving, closing, saving *)
(*   room.js, user_mgr.js, user.js      messages to the players            *)
(*                                                                         *)
(* A User object and a Room object are named by the join request that      *)
(* created them (0: no object): one player may own several User objects    *)
(* over time, and one room id several Room objects.  An await on the       *)
(* game's code or on the player's data splits a join in two or three steps.*)
(***************************************************************************)
EXTENDS Integers, Sequences, SequencesExt

CONSTANTS
  Players, Rooms, Socks,
  Owner,      \* the player at the other end of a socket
  JoinSock,   \* the socket each room.join request comes on, a sequence
  Expect,     \* the players a room is appointed for
  Preloaded,  \* are the game's code and the players' data in memory already?
  Says,       \* bound: the messages the game of a Room object sends, a sequence
  Slow,       \* bound: the sockets whose closing takes a while
  NoRoom, NoSock

Joins == DOMAIN JoinSock
Objects == {0} \cup Joins

ASSUME LifecycleAssumption ==
  /\ Owner \in [Socks -> Players]
  /\ JoinSock \in Seq(Socks)
  /\ Expect \in [Rooms -> SUBSET Players]
  /\ Preloaded \in BOOLEAN /\ Slow \subseteq Socks
  /\ Says \in Seq([to : Seq(Players), live : BOOLEAN])
  /\ NoRoom \notin Rooms /\ NoSock \notin Socks

VARIABLES
  \* match_result.js
  roomMap,    \* _roomMap: the rooms with a mapping
  user2room,  \* _user2room
  logicRooms, \* _room2type: the rooms this node is the logic node of
  logicUsers, \* _user2workType: the players this node is the logic node of
  \* the join requests: where they wait, and what they hold on to meanwhile
  phase, joinUser, joinRoom,
  \* sockets
  sock,       \* "open", "closing" (close was called), "closed" (event delivered)
  listeners,  \* of a socket: the User objects that listen to it, oldest first
  \* User objects
  users,      \* userMgr.users: the User object of a player
  userSock, userRoom, userState,
  timer,      \* is the heart timer running?
  talked,     \* may _lastMsgTime be # 0: did it ever listen to an open socket?
  \* Room objects
  rooms,      \* roomMgr.rooms: the Room object of a room id
  roomId,     \* of a Room object: its id
  isLogic,    \* of a Room object: not isSupervisor
  members,    \* engine._userList
  visitors,   \* engine._userListPrev: everyone who entered, in order
  started,    \* room state START: messages flow to the players
  closed,     \* room ids that were closed
  sent,       \* of a Room object: how many messages its game has sent
  pending,    \* of a Room object: _sendPending, the messages that wait for its start
  early,      \* of a Room object: how many had been sent when it started
  inbox,      \* of a socket: the rooms' messages written to it, in order
  saves       \* of a room id: the saves that were started, oldest first

matchVars == <<roomMap, user2room>>
joinVars  == <<phase, joinUser, joinRoom>>
nodeVars  == <<logicRooms, logicUsers, sock, listeners, users, userSock, userRoom,
               userState, timer, talked, rooms, roomId, isLogic, members, visitors,
               started, closed, sent, pending, early, inbox, saves>>
vars      == <<matchVars, joinVars, nodeVars>>

Player(j) == Owner[JoinSock[j]]

\* Handlers call one another: they are written as functions from the node's state
\* to the node's state.
Node ==
  [logicRooms |-> logicRooms, logicUsers |-> logicUsers, sock |-> sock,
   listeners |-> listeners, users |-> users, userSock |-> userSock,
   userRoom |-> userRoom, userState |-> userState, timer |-> timer, talked |-> talked,
   rooms |-> rooms, roomId |-> roomId, isLogic |-> isLogic, members |-> members,
   visitors |-> visitors, started |-> started, closed |-> closed, sent |-> sent,
   pending |-> pending, early |-> early, inbox |-> inbox, saves |-> saves]

Becomes(n) ==
  /\ logicRooms' = n.logicRooms /\ logicUsers' = n.logicUsers
  /\ sock' = n.sock /\ listeners' = n.listeners
  /\ users' = n.users /\ userSock' = n.userSock /\ userRoom' = n.userRoom
  /\ userState' = n.userState /\ timer' = n.timer /\ talked' = n.talked
  /\ rooms' = n.rooms /\ roomId' = n.roomId /\ isLogic' = n.isLogic
  /\ members' = n.members /\ visitors' = n.visitors /\ started' = n.started
  /\ closed' = n.closed /\ saves' = n.saves /\ sent' = n.sent
  /\ pending' = n.pending /\ early' = n.early /\ inbox' = n.inbox

-----------------------------------------------------------------------------
Init ==
  /\ roomMap = {} /\ user2room = [p \in Players |-> NoRoom]
  /\ logicRooms = {} /\ logicUsers = {}
  /\ phase = [j \in Joins |-> "idle"]
  /\ joinUser = [j \in Joins |-> 0] /\ joinRoom = [j \in Joins |-> 0]
  /\ sock = [s \in Socks |-> "open"] /\ listeners = [s \in Socks |-> << >>]
  /\ users = [p \in Players |-> 0]
  /\ userSock = [x \in Joins |-> NoSock] /\ userRoom = [x \in Joins |-> NoRoom]
  /\ userState = [x \in Joins |-> "init"]
  /\ timer = [x \in Joins |-> FALSE] /\ talked = [x \in Joins |-> FALSE]
  /\ rooms = [r \in Rooms |-> 0] /\ roomId = [o \in Joins |-> NoRoom]
  /\ isLogic = [o \in Joins |-> FALSE]
  /\ members = [o \in Joins |-> << >>] /\ visitors = [o \in Joins |-> << >>]
  /\ started = [o \in Joins |-> FALSE] /\ closed = {}
  /\ saves = [r \in Rooms |-> << >>] /\ sent = [o \in Joins |-> 0]
  /\ pending = [o \in Joins |-> << >>] /\ early = [o \in Joins |-> 0]
  /\ inbox = [s \in Socks |-> << >>]

-----------------------------------------------------------------------------
(* Messages to the players.  A message is for named players or, when it is *)
(* live, for whoever is in the room when it is sent on: a broadcast        *)
(* carries the room's own list.  Number 0 is room.joined.                  *)

Message(i, to, live) == [n |-> i, to |-> to, live |-> live]
Heard(o, m) == [room |-> o, n |-> m.n]

\* UserMgr._sendSingle, User.send: the player's User object writes to its socket, if
\* there is one and it is open.
SendSingle(n, o, m, p) ==
  LET s == IF n.users[p] = 0 THEN NoSock ELSE n.userSock[n.users[p]]
  IN IF s = NoSock \/ n.sock[s] # "open" THEN n
     ELSE [n EXCEPT !.inbox[s] = Append(@, Heard(o, m))]

\* The players UserMgr.send goes through.
Receivers(n, o, m) == IF m.live THEN n.members[o] ELSE m.to

SendAll(n, o, m) ==
  LET to == Receivers(n, o, m)
      told[i \in 0..Len(to)] ==
        IF i = 0 THEN n ELSE SendSingle(told[i - 1], o, m, to[i])
  IN told[Len(to)]

\* SendPending that does not empty the list.
PendingStays(n, o) ==
  LET told[i \in 0..Len(n.pending[o])] ==
        IF i = 0 THEN n ELSE SendAll(told[i - 1], o, n.pending[o][i])
  IN told[Len(n.pending[o])]

\* Room._tryFlushSendPending.
SendPending(n, o) == [PendingStays(n, o) EXCEPT !.pending[o] = << >>]

\* RoomSend when a message that waits is for those who are in the room already.
ForThoseHere(n, o, m) ==
  IF ~n.isLogic[o] THEN n
  ELSE IF n.started[o] THEN SendAll(n, o, m)
  ELSE [n EXCEPT !.pending[o] = Append(@, Message(m.n, Receivers(n, o, m), FALSE))]

\* Room.send: messages wait until the room has started.
RoomSend(n, o, m) ==
  IF ~n.isLogic[o] THEN n
  ELSE IF n.started[o] THEN SendAll(n, o, m)
  ELSE [n EXCEPT !.pending[o] = Append(@, m)]

\* Room.setState(START).
Start(n, o) ==
  SendPending([n EXCEPT !.started[o] = TRUE,
                        !.early[o] = IF n.started[o] THEN @ ELSE n.sent[o]], o)

-----------------------------------------------------------------------------
(* Leaving and closing.                                                    *)

\* SavedList when the engine passes the players that are in the room now.
MembersNow(n, o) == n.members[o]

\* What the engine hands to saveUserToStorage.
SavedList(n, o) == n.visitors[o]

\* Engine.onclose: a logic room saves its players, and the lists are replaced by empty
\* ones; messages that wait keep the old one.
OnClose(n, o) ==
  LET save == [list |-> SavedList(n, o), started |-> n.started[o]]
  IN [n EXCEPT !.saves[n.roomId[o]] =
                 IF n.isLogic[o] /\ save.list # << >> THEN Append(@, save) ELSE @,
               !.pending[o] = [i \in DOMAIN @ |->
                  IF @[i].live THEN Message(@[i].n, n.members[o], FALSE) ELSE @[i]],
               !.members[o] = << >>, !.visitors[o] = << >>]

\* DropRoles without deleteRoomWorkType.
KeepRoles(n, r) == n

\* The first lines of Room.closeRoom.  deleteResult returns before it deletes
\* anything when the room HAS a mapping, which every room here has.
DropRoles(n, r) == [n EXCEPT !.logicRooms = @ \ {r}]

\* The last lines of Room.closeRoom, and RoomMgr.closeRoom's delete.
FinishClose(n, r, o) ==
  [OnClose(n, o) EXCEPT !.rooms[r] = 0, !.closed = @ \cup {r}]

\* LastLeaves when an empty room stays open.
StaysOpen(n, r, o) == n

\* Room.leaveRoom of the last player closes the room: there is no one left for
\* closeRoom to log out.
LastLeaves(n, r, o) == FinishClose(DropRoles(n, r), r, o)

\* RoomMgr.leaveRoom.
LeaveRoom(n, r, p) ==
  LET o    == IF r = NoRoom THEN 0 ELSE n.rooms[r]
      out  == [n EXCEPT !.members[o] = RemoveFirst(@, p)]
      left == IF out.members[o] = << >> THEN LastLeaves(out, r, o) ELSE out
  IN IF o = 0 THEN n
     ELSE IF \A i \in DOMAIN n.members[o] : n.members[o][i] # p THEN n
     ELSE IF left.users[p] = 0 THEN left
     ELSE [left EXCEPT !.userRoom[left.users[p]] = NoRoom]

\* DoLogout that forgets the room.
LogoutStaysIn(n, x) ==
  LET s == n.userSock[x]
      m == [n EXCEPT !.users[Player(x)] = 0, !.userSock[x] = NoSock]
  IN IF s = NoSock THEN m ELSE [m EXCEPT !.sock[s] = IF @ = "open" THEN "closing" ELSE @]

\* User.doLogout with reason 0.  deleteUser takes an id: it removes whichever User
\* object the player has in userMgr.
DoLogout(n, x) ==
  LET p   == Player(x)
      s   == n.userSock[x]
      cut == IF s = NoSock THEN n
             ELSE [n EXCEPT !.sock[s] = IF @ = "open" THEN "closing" ELSE @,
                            !.userSock[x] = NoSock]
  IN [LeaveRoom(cut, cut.userRoom[x], p) EXCEPT !.users[p] = 0]

\* RoomMgr.closeRoom, Room.closeRoom: the loop logs out the i-th player of a list
\* that doLogout shortens under it.  It throws at a player userMgr does not know:
\* then the rest of the closing does not happen.
CloseRoom(n, r) ==
  LET o == n.rooms[r]
      Visit(m, i) ==
        LET p == m.members[o][i]
        IN [DoLogout(m, m.users[p]) EXCEPT !.logicUsers = @ \ {p}]
      loop[i \in 0..Len(n.members[o])] ==
        IF i = 0 THEN [node |-> DropRoles(n, r), thrown |-> FALSE]
        ELSE LET m == loop[i - 1].node
             IN IF loop[i - 1].thrown \/ i > Len(m.members[o]) THEN loop[i - 1]
                ELSE IF m.users[m.members[o][i]] = 0 THEN [node |-> m, thrown |-> TRUE]
                ELSE [node |-> Visit(m, i), thrown |-> FALSE]
      last == loop[Len(n.members[o])]
  IN IF o = 0 THEN n
     ELSE IF last.thrown THEN last.node ELSE FinishClose(last.node, r, o)

-----------------------------------------------------------------------------
(* Entering.                                                               *)

\* Complete when anyone's arrival starts the room.
AnyoneStarts(n, o, r) == TRUE

\* _trySendRoomJoined: is everyone there?  Then room.joined is sent behind what waits.
EveryoneIsIn(n, o, r) == ToSet(n.members[o]) = Expect[r]

\* The end of a join, once the player's data is there: engine.enterRoom goes on,
\* then RoomMgr.enterRoom, Game.enter and the callback of _doEnter, with no await
\* in between.  The join that created the room looks its room up again: it may be
\* gone, and _trySendRoomJoined then throws.
Complete(n, j, x, o) ==
  LET r    == n.roomId[o]
      in   == [n EXCEPT !.members[o] = Append(@, Player(j)),
                        !.visitors[o] = Append(@, Player(j)),
                        !.userRoom[x] = r, !.userState[x] = "entered"]
      room == IF o = j THEN in.rooms[r] ELSE o
  IN IF room # 0 /\ EveryoneIsIn(in, room, r)
       THEN Start(RoomSend(in, room, Message(0, << >>, TRUE)), room) ELSE in

\* User.updateSocket, and what a new User does with its socket: it starts the heart
\* timer and listens, and nothing ever takes its listeners away again.  A message may
\* come as long as the socket is open, and gives the timer a time to compare with.
UpdateSocket(n, x, s) ==
  [n EXCEPT !.userSock[x] = s, !.timer[x] = TRUE, !.listeners[s] = Append(@, x),
            !.talked[x] = @ \/ n.sock[s] = "open"]

\* A new User object, filed in userMgr under the player's id.
NewUser(n, j) == [UpdateSocket(n, j, JoinSock[j]) EXCEPT !.users[Player(j)] = j]

\* Game.enter: the player's User object, created if there is none.  The socket of
\* an existing one is replaced only when it has none.
WithUser(n, j) ==
  LET x == n.users[Player(j)]
  IN IF x = 0 THEN NewUser(n, j)
     ELSE IF n.userSock[x] = NoSock THEN UpdateSocket(n, x, JoinSock[j])
     ELSE n

\* A new Room object, and its engine, with nobody in it.
NewRoom(n, j, r, isSupervisor) ==
  [n EXCEPT !.rooms[r] = j, !.roomId[j] = r, !.isLogic[j] = ~isSupervisor]

\* Game.enter: the player's Room object, created if there is none.  A room that was
\* closed is not a logic room any more: it is created again as a supervisor's.
WithRoom(n, j, r) ==
  IF n.rooms[r] # 0 THEN n ELSE NewRoom(n, j, r, r \notin n.logicRooms)

\* Does Game.enter give up before the player's data is asked for?
Refused(n, x, p, r) ==
  \/ r = NoRoom
  \/ n.userRoom[x] # NoRoom /\ (n.rooms[r] = 0 \/ n.userRoom[x] # r)
  \/ n.rooms[r] # 0 /\ \E i \in DOMAIN n.members[n.rooms[r]] : n.members[n.rooms[r]][i] = p

\* Game.enter up to its end or to the await on the player's data.
Enter(j) ==
  LET p == Player(j)
      r == user2room[p]
      m == WithUser(Node, j)
      x == m.users[p]
      n == WithRoom(m, j, r)
      o == n.rooms[r]
  IN IF Refused(m, x, p, r)
       THEN /\ Becomes(m)
            /\ phase' = [phase EXCEPT ![j] = "done"]
            /\ UNCHANGED <<joinUser, joinRoom>>
     ELSE IF Preloaded
       THEN /\ Becomes(Complete(n, j, x, o))
            /\ phase' = [phase EXCEPT ![j] = "done"]
            /\ UNCHANGED <<joinUser, joinRoom>>
     ELSE /\ Becomes(n)
          /\ phase' = [phase EXCEPT ![j] = "load"]
          /\ joinUser' = [joinUser EXCEPT ![j] = x]
          /\ joinRoom' = [joinRoom EXCEPT ![j] = o]

\* MatchResult: the room and its players are stored; the last room of a player wins.
StoreResult(r) ==
  /\ roomMap' = roomMap \cup {r}
  /\ user2room' = [p \in Players |-> IF p \in Expect[r] THEN r ELSE user2room[p]]

\* MatchResult: this node gets the role of a logic node for the room and its players.
SetWorkTypes(n, r) ==
  [n EXCEPT !.logicRooms = @ \cup {r}, !.logicUsers = @ \cup Expect[r]]

\* MatchResult: is this node the player's logic node?
IsLogicRoomByUser(p) == p \in logicUsers

\* onAppointed: the center makes this node the logic node of room r.
Appoint(r) ==
  /\ r \notin roomMap
  /\ StoreResult(r)
  /\ Becomes(SetWorkTypes(Node, r))
  /\ UNCHANGED joinVars

\* A room.join request, which is answered when this node is the player's logic node.
JoinArrives(j) ==
  /\ phase[j] = "idle" /\ sock[JoinSock[j]] = "open" /\ IsLogicRoomByUser(Player(j))
  /\ IF Preloaded THEN Enter(j)
     ELSE phase' = [phase EXCEPT ![j] = "code"] /\ UNCHANGED <<joinUser, joinRoom,
                                                               nodeVars>>
  /\ UNCHANGED matchVars

CodeLoaded(j) == phase[j] = "code" /\ Enter(j) /\ UNCHANGED matchVars

DataLoaded(j) ==
  /\ phase[j] = "load"
  /\ Becomes(Complete(Node, j, joinUser[j], joinRoom[j]))
  /\ phase' = [phase EXCEPT ![j] = "done"]
  /\ UNCHANGED <<matchVars, joinUser, joinRoom>>

\* The game's code or the player's data cannot be had: the join ends there.
LoadFails(j) ==
  /\ phase[j] \in {"code", "load"}
  /\ phase' = [phase EXCEPT ![j] = "done"]
  /\ UNCHANGED <<matchVars, joinUser, joinRoom, nodeVars>>

-----------------------------------------------------------------------------
(* Everything that makes a player leave or a room close.                   *)

\* User._onclose and _onerror, of the User object x.
Disconnect(n, x) == DoLogout([n EXCEPT !.userState[x] = "disconnect"], x)

\* The handlers of every User object that listens to a socket, oldest first.
DisconnectAll(n, l) ==
  LET gone[i \in 0..Len(l)] == IF i = 0 THEN n ELSE Disconnect(gone[i - 1], l[i])
  IN gone[Len(l)]

\* An event of a socket runs them.
SocketEvent(s, how) ==
  /\ Becomes(DisconnectAll([Node EXCEPT !.sock[s] = how], listeners[s]))
  /\ UNCHANGED <<matchVars, joinVars>>

SocketCloses(s) == sock[s] # "closed" /\ SocketEvent(s, "closed")

\* An error: the close event of the socket is still to come.
SocketFails(s) == sock[s] = "open" /\ SocketEvent(s, "closing")

\* The peer has begun to close the socket: nothing is written to it any more, and its
\* close event is still to come.
PeerCloses(s) ==
  /\ s \in Slow /\ sock[s] = "open"
  /\ Becomes([Node EXCEPT !.sock[s] = "closing"])
  /\ UNCHANGED <<matchVars, joinVars>>

ListensTo(x, s) == sock[s] = "open" /\ \E i \in DOMAIN listeners[s] : listeners[s][i] = x

\* No message for 30 s, of a User object whose last message has a time.
HeartTimeout(x) ==
  /\ timer[x] /\ talked[x] /\ userState[x] # "disconnect"
  /\ Becomes([DoLogout(Node, x) EXCEPT !.timer[x] = FALSE])
  /\ UNCHANGED <<matchVars, joinVars>>

HeartStops(x) ==
  /\ timer[x] /\ userState[x] = "disconnect"
  /\ Becomes([Node EXCEPT !.timer[x] = FALSE])
  /\ UNCHANGED <<matchVars, joinVars>>

\* room.leave at the end of a round: the player keeps the socket and the User.
LeaveRequest(x) ==
  /\ \E s \in Socks : ListensTo(x, s)
  /\ userRoom[x] # NoRoom
  /\ Becomes(LeaveRoom(Node, userRoom[x], Player(x)))
  /\ UNCHANGED <<matchVars, joinVars>>

\* on_matched: the center has matched the player into another room.
Matched(p) ==
  /\ users[p] # 0 /\ userRoom[users[p]] # NoRoom
  /\ Becomes(LeaveRoom(Node, userRoom[users[p]], p))
  /\ UNCHANGED <<matchVars, joinVars>>

\* The game's code calls engine.close().
GameCloses(r) ==
  /\ rooms[r] # 0
  /\ Becomes(CloseRoom(Node, r))
  /\ UNCHANGED <<matchVars, joinVars>>

\* engine.broadcast and engine.send, called by the game's code: upon a message, an
\* arrival, a leaving, or from its loop, which a closed room has still.  (A broadcast to
\* nobody is left out.)
GameSends(o) ==
  LET i == sent[o] + 1
  IN /\ isLogic[o] /\ i \in DOMAIN Says
     /\ Says[i].live => members[o] # << >>
     /\ Becomes([RoomSend(Node, o, Message(i, Says[i].to, Says[i].live))
                   EXCEPT !.sent[o] = i])
     /\ UNCHANGED <<matchVars, joinVars>>

-----------------------------------------------------------------------------
Next ==
  \/ \E r \in Rooms : Appoint(r) \/ GameCloses(r)
  \/ \E j \in Joins : JoinArrives(j) \/ CodeLoaded(j) \/ DataLoaded(j) \/ LoadFails(j)
  \/ \E s \in Socks : SocketCloses(s) \/ SocketFails(s) \/ PeerCloses(s)
  \/ \E x \in Joins : HeartTimeout(x) \/ HeartStops(x) \/ LeaveRequest(x)
  \/ \E p \in Players : Matched(p)
  \/ \E o \in Joins : GameSends(o)

Spec == Init /\ [][Next]_vars

-----------------------------------------------------------------------------
(* Properties.                                                             *)

\* Every variable keeps its type; objects are filed under their own player and room
\* id, and a room that was closed has lost its role.
TypeOK ==
  /\ roomMap \subseteq Rooms /\ logicRooms \subseteq Rooms /\ closed \subseteq Rooms
  /\ logicUsers \subseteq Players
  /\ user2room \in [Players -> Rooms \cup {NoRoom}]
  /\ phase \in [Joins -> {"idle", "code", "load", "done"}]
  /\ joinUser \in [Joins -> Objects] /\ joinRoom \in [Joins -> Objects]
  /\ sock \in [Socks -> {"open", "closing", "closed"}]
  /\ listeners \in [Socks -> Seq(Joins)]
  /\ users \in [Players -> Objects]
  /\ userSock \in [Joins -> Socks \cup {NoSock}]
  /\ userRoom \in [Joins -> Rooms \cup {NoRoom}]
  /\ userState \in [Joins -> {"init", "entered", "disconnect"}]
  /\ timer \in [Joins -> BOOLEAN] /\ talked \in [Joins -> BOOLEAN]
  /\ rooms \in [Rooms -> Objects] /\ roomId \in [Joins -> Rooms \cup {NoRoom}]
  /\ isLogic \in [Joins -> BOOLEAN] /\ started \in [Joins -> BOOLEAN]
  /\ \A p \in Players : users[p] # 0 => Player(users[p]) = p
  /\ \A r \in Rooms : rooms[r] # 0 => roomId[rooms[r]] = r
  /\ closed \cap logicRooms = {}
  /\ \A o \in Joins : members[o] \in Seq(Players) /\ visitors[o] \in Seq(Players)
  /\ sent \in [Joins -> 0..Len(Says)] /\ early \in [Joins -> 0..Len(Says)]

\* The players of a room are saved at most once for its room hash: a room that is
\* closed while it is closing saves an empty list the second time, and a room that
\* is entered again after it was closed does not save at all.
SavedAtMostOnce == \A r \in Rooms : Len(saves[r]) <= 1

\* When a room that had started is saved, the save covers every player it was
\* appointed for, those who left or lost their connection before included.
StartedRoomSavesAll ==
  \A r \in Rooms : \A i \in DOMAIN saves[r] :
    saves[r][i].started => Expect[r] \subseteq ToSet(saves[r][i].list)

IsIn(p, r) == rooms[r] # 0 /\ \E i \in DOMAIN members[rooms[r]] : members[rooms[r]][i] = p

\* TODO-litao.md:11: a player whose connections are all closed is neither in
\* userMgr nor in a room.
DisconnectRemoves ==
  \A p \in Players :
    (\A s \in Socks : Owner[s] = p => sock[s] = "closed")
      => users[p] = 0 /\ \A r \in Rooms : ~IsIn(p, r)

\* TODO-litao.md:12: a room nobody is in, or about to be in, is closed.
EmptyRoomCloses ==
  \A r \in Rooms :
    rooms[r] # 0 /\ members[rooms[r]] = << >>
      => \E j \in Joins : phase[j] = "load" /\ joinRoom[j] = rooms[r]

\* A connection gets the messages of a game in the order they were sent, each one once:
\* those that waited for the room's start, and those sent afterwards.
HeardInOrder ==
  \A s \in Socks : \A i, k \in DOMAIN inbox[s] :
    LET a == inbox[s][i]  b == inbox[s][k]
    IN i < k /\ a.room = b.room /\ a.n > 0 /\ b.n > 0 => a.n < b.n

\* A broadcast, and room.joined, is for everyone, another message for those it names.
IsFor(i, p) == i > 0 /\ ~Says[i].live => p \in ToSet(Says[i].to)

\* Message i of o's game was written to the connection the player's User object has;
\* there is no way to write it when there is no User or its connection is not open.
Reached(o, i, p) ==
  LET s == IF users[p] = 0 THEN NoSock ELSE userSock[users[p]]
  IN s # NoSock /\ sock[s] = "open" => Contains(inbox[s], [room |-> o, n |-> i])

\* When a room starts, every player it was appointed for gets, on the connection the
\* player has by then, room.joined and what was sent to the player or broadcast
\* before, even those who came, or came back on a new connection, after it was sent.
\* No one is excused but players whose connection is not open any more, and players
\* in the room whose User object was removed by an event of a connection they had
\* before (deleteUser takes an id).
StartReachesAll ==
  [][\A o \in Joins : ~started[o] /\ started'[o] /\ isLogic[o]' =>
       \A i \in 0..early'[o], p \in Players :
         p \in Expect[roomId'[o]] /\ IsFor(i, p) => Reached(o, i, p)']_vars
=============================================================================
