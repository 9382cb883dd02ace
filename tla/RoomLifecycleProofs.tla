------------------------- MODULE RoomLifecycleProofs -------------------------
(***************************************************************************)
(* What is proved of RoomLifecycle for every number of players, rooms,     *)
(* sockets and joins: its types, what is saved of the rooms, that empty    *)
(* rooms are closed, and in which order a game's messages are heard.       *)
(***************************************************************************)
EXTENDS RoomLifecycle, Iteration

Texts == [n : 0..Len(Says), to : Seq(Players), live : BOOLEAN]
Notes == [room : Joins, n : 0..Len(Says)]
Saves == [list : Seq(Players), started : BOOLEAN]

\* The states of a node.
Nodes ==
  [logicRooms : SUBSET Rooms, logicUsers : SUBSET Players,
   sock : [Socks -> {"open", "closing", "closed"}], listeners : [Socks -> Seq(Joins)],
   users : [Players -> Objects], userSock : [Joins -> Socks \cup {NoSock}],
   userRoom : [Joins -> Rooms \cup {NoRoom}],
   userState : [Joins -> {"init", "entered", "disconnect"}],
   timer : [Joins -> BOOLEAN], talked : [Joins -> BOOLEAN],
   rooms : [Rooms -> Objects], roomId : [Joins -> Rooms \cup {NoRoom}],
   isLogic : [Joins -> BOOLEAN], members : [Joins -> Seq(Players)],
   visitors : [Joins -> Seq(Players)], started : [Joins -> BOOLEAN],
   closed : SUBSET Rooms, sent : [Joins -> 0..Len(Says)],
   pending : [Joins -> Seq(Texts)], early : [Joins -> 0..Len(Says)],
   inbox : [Socks -> Seq(Notes)], saves : [Rooms -> Seq(Saves)]]

-----------------------------------------------------------------------------
(* The invariant of a node.                                                *)

\* Objects are filed under their own player and room id.
FiledInv(n) ==
  /\ \A p \in Players : n.users[p] # 0 => Player(n.users[p]) = p
  /\ \A r \in Rooms : n.rooms[r] # 0 => n.roomId[n.rooms[r]] = r

\* A Room object that was not made yet is blank.
BlankInv(n) == \A o \in Joins :
  n.roomId[o] = NoRoom =>
    /\ n.members[o] = << >> /\ n.visitors[o] = << >>
    /\ ~n.started[o] /\ ~n.isLogic[o]

\* Whoever is in a room has visited it.
VisitInv(n) == \A o \in Joins : ToSet(n.members[o]) \subseteq ToSet(n.visitors[o])

\* Everyone has visited a room that has started and is open.
FullInv(n) == \A r \in Rooms :
  n.rooms[r] # 0 /\ n.started[n.rooms[r]] => Expect[r] \subseteq ToSet(n.visitors[n.rooms[r]])

\* A room that was closed, and only such a one, was saved, and if it was opened again it
\* will not be saved any more.
OnceInv(n) == \A r \in Rooms :
  /\ Len(n.saves[r]) <= 1
  /\ n.saves[r] # << >> => r \in n.closed
  /\ r \in n.closed => r \notin n.logicRooms
  /\ r \in n.closed /\ n.rooms[r] # 0 => ~n.isLogic[n.rooms[r]]

\* What was saved of a room that had started is complete.
CompleteInv(n) == \A r \in Rooms : \A i \in 1..Len(n.saves[r]) :
  n.saves[r][i].started => Expect[r] \subseteq ToSet(n.saves[r][i].list)

\* Only rooms of K have been heard of.
KnownInv(n, K) ==
  /\ n.logicRooms \subseteq K /\ n.closed \subseteq K
  /\ \A r \in Rooms : n.rooms[r] # 0 => r \in K

GoodNodes(K) ==
  {n \in Nodes : /\ FiledInv(n) /\ BlankInv(n) /\ VisitInv(n) /\ FullInv(n)
                 /\ OnceInv(n) /\ CompleteInv(n) /\ KnownInv(n, K)}

\* What a node does without touching its rooms.
SameRooms(k, n) ==
  /\ k.logicRooms = n.logicRooms /\ k.rooms = n.rooms /\ k.roomId = n.roomId
  /\ k.isLogic = n.isLogic /\ k.members = n.members /\ k.visitors = n.visitors
  /\ k.started = n.started /\ k.closed = n.closed /\ k.saves = n.saves

\* A player keeps the User object, loses it, or has another one of the player's own.
OwnUsers(k, n) ==
  \A p \in Players : k.users[p] \in {n.users[p], 0} \/ Player(k.users[p]) = p

\* What leaving and closing do: rooms are closed, and a room that is closed is empty.
Keeps(k, n) ==
  /\ k.roomId = n.roomId /\ k.isLogic = n.isLogic /\ k.started = n.started
  /\ k.logicRooms \subseteq n.logicRooms
  /\ \A r \in Rooms : \/ k.rooms[r] = n.rooms[r]
                      \/ k.rooms[r] = 0 /\ k.visitors[n.rooms[r]] = << >>
  /\ \A o \in Joins : n.visitors[o] = << >> => k.visitors[o] = << >>

\* No room is open and empty that was not before.
EmptiesNone(k, n) == \A r \in Rooms :
  k.rooms[r] # 0 /\ k.members[k.rooms[r]] = << >> => n.members[k.rooms[r]] = << >>

-----------------------------------------------------------------------------
(* What the players heard, and what waits to be sent to them.              *)

\* Messages of a game, in the order they were sent.
InTurns(l) ==
  \A i, k \in 1..Len(l) : i < k /\ l[i].n > 0 /\ l[k].n > 0 => l[i].n < l[k].n

\* A User object writes to a socket of its player.
OwnSocks(n) ==
  \A x \in Joins : n.userSock[x] # NoSock => Owner[n.userSock[x]] = Player(x)

\* Nobody is in a room twice.
SeatsOnce(n) == \A o \in Joins : Distinct(n.members[o])

\* What waits was sent, in this order, and is for nobody twice; when a room has started
\* nothing waits.
WaitInv(n) == \A o \in Joins :
  /\ InTurns(n.pending[o]) /\ (n.started[o] => n.pending[o] = << >>)
  /\ \A i \in 1..Len(n.pending[o]) :
       /\ n.pending[o][i].n <= n.sent[o]
       /\ n.pending[o][i].live \/ Distinct(n.pending[o][i].to)

\* What the sockets got was sent before what waits.
BoxInv(n) == \A s \in Socks : \A i \in 1..Len(n.inbox[s]) :
  LET a == n.inbox[s][i]
  IN /\ a.n <= n.sent[a.room]
     /\ \A k \in 1..Len(n.pending[a.room]) :
          a.n > 0 /\ n.pending[a.room][k].n > 0 => a.n < n.pending[a.room][k].n

\* HeardInOrder of one list.
HeardOnce(l) == \A i, k \in 1..Len(l) :
  i < k /\ l[i].room = l[k].room /\ l[i].n > 0 /\ l[k].n > 0 => l[i].n < l[k].n

OrderInv(n) == \A s \in Socks : HeardOnce(n.inbox[s])

HeardInv(n) == OwnSocks(n) /\ SeatsOnce(n) /\ WaitInv(n) /\ BoxInv(n) /\ OrderInv(n)

StillHeard(k, n) == HeardInv(n) => HeardInv(k)

\* Nothing is sent or heard: players may leave, and lose their sockets, and a message
\* that waits for whoever is in the room may be settled to be for those who are now.
Hushed(k, n) ==
  /\ k.inbox = n.inbox /\ k.sent = n.sent /\ k.started = n.started
  /\ \A x \in Joins : k.userSock[x] \in {n.userSock[x], NoSock}
  /\ \A o \in Joins : Distinct(n.members[o]) => Distinct(k.members[o])
  /\ \A o \in Joins :
       /\ Len(k.pending[o]) = Len(n.pending[o])
       /\ \A i \in 1..Len(n.pending[o]) :
            /\ k.pending[o][i].n = n.pending[o][i].n
            /\ \/ k.pending[o][i] = n.pending[o][i]
               \/ k.pending[o][i].to = n.members[o]

LEMMA HushedHeard ==
  ASSUME NEW n \in Nodes, NEW k \in Nodes, Hushed(k, n)
  PROVE  StillHeard(k, n)
<1> SUFFICES ASSUME HeardInv(n) PROVE HeardInv(k)
  BY DEF StillHeard
<1>1. OwnSocks(n) /\ SeatsOnce(n) /\ WaitInv(n) /\ BoxInv(n) /\ OrderInv(n)
  BY DEF HeardInv
<1>2. OwnSocks(k)
  BY <1>1 DEF Hushed, OwnSocks
<1>3. SeatsOnce(k)
  BY <1>1 DEF Hushed, SeatsOnce
<1>4. ASSUME NEW o \in Joins
      PROVE  /\ Len(k.pending[o]) = Len(n.pending[o])
             /\ \A i \in 1..Len(n.pending[o]) : k.pending[o][i].n = n.pending[o][i].n
  BY DEF Hushed
<1>5. WaitInv(k)
  <2> SUFFICES ASSUME NEW o \in Joins
               PROVE  /\ InTurns(k.pending[o]) /\ (k.started[o] => k.pending[o] = << >>)
                      /\ \A i \in 1..Len(k.pending[o]) :
                           /\ k.pending[o][i].n <= k.sent[o]
                           /\ k.pending[o][i].live \/ Distinct(k.pending[o][i].to)
    BY DEF WaitInv
  <2>1. InTurns(k.pending[o])
    BY <1>1, <1>4 DEF WaitInv, InTurns
  <2>2. k.started[o] => k.pending[o] = << >>
    <3>1. k.started[o] => Len(n.pending[o]) = 0
      BY <1>1 DEF Hushed, WaitInv
    <3>2. k.pending[o] \in Seq(Texts)
      BY DEF Nodes
    <3>3. QED
      BY <1>4, <3>1, <3>2
  <2>3. \A i \in 1..Len(k.pending[o]) : k.pending[o][i].n <= k.sent[o]
    BY <1>1, <1>4 DEF WaitInv, Hushed
  <2>4. \A i \in 1..Len(k.pending[o]) : k.pending[o][i].live \/ Distinct(k.pending[o][i].to)
    BY <1>1, <1>4 DEF WaitInv, Hushed, SeatsOnce
  <2>5. QED
    BY <2>1, <2>2, <2>3, <2>4
<1>6. BoxInv(k)
  <2>1. ASSUME NEW s \in Socks, NEW i \in 1..Len(k.inbox[s])
        PROVE  LET a == k.inbox[s][i]
               IN /\ a.n <= k.sent[a.room]
                  /\ \A m \in 1..Len(k.pending[a.room]) :
                       a.n > 0 /\ k.pending[a.room][m].n > 0 => a.n < k.pending[a.room][m].n
    <3> DEFINE a == n.inbox[s][i]
    <3>1. k.inbox[s][i] = a /\ i \in 1..Len(n.inbox[s])
      BY DEF Hushed
    <3>2. a.room \in Joins
      <4>1. n.inbox[s] \in Seq(Notes)
        BY DEF Nodes
      <4>2. a \in Notes
        BY <3>1, <4>1
      <4> HIDE DEF a
      <4>3. QED
        BY <4>2 DEF Notes
    <3>3. /\ a.n <= n.sent[a.room]
          /\ \A m \in 1..Len(n.pending[a.room]) :
               a.n > 0 /\ n.pending[a.room][m].n > 0 => a.n < n.pending[a.room][m].n
      BY <1>1, <3>1 DEF BoxInv
    <3> HIDE DEF a
    <3>4. k.sent = n.sent
      BY DEF Hushed
    <3>5. QED
      BY <1>4, <3>1, <3>2, <3>3, <3>4
  <2>2. QED
    BY <2>1 DEF BoxInv
<1>7. OrderInv(k)
  BY <1>1 DEF Hushed, OrderInv
<1>8. QED
  BY <1>2, <1>3, <1>5, <1>6, <1>7 DEF HeardInv

\* Neither are players seated nor messages sent.
SameTalk(k, n) ==
  /\ k.inbox = n.inbox /\ k.sent = n.sent /\ k.pending = n.pending /\ k.early = n.early
  /\ \A x \in Joins : k.userSock[x] \in {n.userSock[x], NoSock}
  /\ \A s \in Socks : k.sock[s] = "open" => n.sock[s] = "open"

LEMMA SameTalkHeard ==
  ASSUME NEW n \in Nodes, NEW k \in Nodes, SameRooms(k, n), SameTalk(k, n)
  PROVE  StillHeard(k, n)
<1>1. Hushed(k, n)
  BY DEF SameRooms, SameTalk, Hushed
<1>2. QED
  BY <1>1, HushedHeard

-----------------------------------------------------------------------------
(* What was sent waits, and is heard when the room starts.                 *)

\* The socket of the player's User object, when there is one and it is open.
SockOf(n, p) == IF n.users[p] = 0 THEN NoSock ELSE n.userSock[n.users[p]]
CanHear(n, p) == SockOf(n, p) # NoSock /\ n.sock[SockOf(n, p)] = "open"

\* Player p got message i of the game of o, or cannot be reached.
Met(n, o, i, p) ==
  CanHear(n, p) => [room |-> o, n |-> i] \in ToSet(n.inbox[SockOf(n, p)])

\* The message a game sends as its i-th one.
Said(i) == Message(i, Says[i].to, Says[i].live)

\* What was sent in a room of this node's that has not started waits.
HeldInv(n) == \A r \in Rooms :
  LET o == n.rooms[r]
  IN o # 0 /\ n.isLogic[o] /\ ~n.started[o] =>
       \A i \in 1..n.sent[o] : Said(i) \in ToSet(n.pending[o])

\* Only a logic room sends.
SentInv(n) == \A o \in Joins : ~n.isLogic[o] => n.sent[o] = 0

TellInv(n) == HeldInv(n) /\ SentInv(n)

\* When a room starts between n and k, everyone gets room.joined and what was sent
\* before.
Reaches(k, n) == \A o \in Joins : ~n.started[o] /\ k.started[o] /\ k.isLogic[o] =>
  \A i \in 0..k.early[o] : \A p \in Players :
    p \in Expect[k.roomId[o]] /\ IsFor(i, p) => Met(k, o, i, p)

\* Nothing is sent, and what waits in a room that stays open goes on waiting.
Quiet(k, n) ==
  /\ k.sent = n.sent /\ k.early = n.early
  /\ \A r \in Rooms : k.rooms[r] # 0 =>
       k.rooms[r] = n.rooms[r] /\ k.pending[k.rooms[r]] = n.pending[k.rooms[r]]

LEMMA QuietTwice ==
  ASSUME NEW n, NEW k, NEW l, Quiet(l, k), Quiet(k, n)
  PROVE  Quiet(l, n)
BY DEF Quiet

LEMMA QuietTells ==
  ASSUME NEW n \in Nodes, NEW k \in Nodes, Keeps(k, n), Quiet(k, n), TellInv(n)
  PROVE  TellInv(k) /\ Reaches(k, n)
<1>1. HeldInv(n) /\ SentInv(n)
  BY DEF TellInv
<1>2. /\ k.isLogic = n.isLogic /\ k.started = n.started /\ k.roomId = n.roomId
      /\ k.sent = n.sent /\ k.early = n.early
  BY DEF Keeps, Quiet
<1>3. HeldInv(k)
  BY <1>1, <1>2 DEF HeldInv, Quiet
<1>4. SentInv(k)
  BY <1>1, <1>2 DEF SentInv
<1>5. Reaches(k, n)
  BY <1>2 DEF Reaches
<1>6. QED
  BY <1>3, <1>4, <1>5 DEF TellInv

-----------------------------------------------------------------------------
Closes(k, n) == Keeps(k, n) /\ EmptiesNone(k, n) /\ StillHeard(k, n) /\ Quiet(k, n)

LEMMA SameRoomsGood ==
  ASSUME NEW K, NEW n \in GoodNodes(K), NEW k \in Nodes, SameRooms(k, n), OwnUsers(k, n)
  PROVE  /\ k \in GoodNodes(K) /\ Keeps(k, n) /\ EmptiesNone(k, n)
         /\ SameTalk(k, n) => Closes(k, n)
<1>1. n \in Nodes
  BY DEF GoodNodes
<1>2. FiledInv(k)
  BY DEF GoodNodes, FiledInv, SameRooms, OwnUsers
<1>3. BlankInv(k) /\ VisitInv(k) /\ FullInv(k)
  BY DEF GoodNodes, BlankInv, VisitInv, FullInv, SameRooms
<1>4. OnceInv(k) /\ CompleteInv(k) /\ KnownInv(k, K)
  BY DEF GoodNodes, OnceInv, CompleteInv, KnownInv, SameRooms
<1>5. Keeps(k, n) /\ EmptiesNone(k, n)
  BY DEF Keeps, EmptiesNone, SameRooms
<1>6. SameTalk(k, n) => Closes(k, n)
  <2>1. SameTalk(k, n) => Quiet(k, n)
    BY DEF SameTalk, SameRooms, Quiet
  <2>2. QED
    BY <1>1, <1>5, <2>1, SameTalkHeard DEF Closes
<1>7. QED
  BY <1>2, <1>3, <1>4, <1>5, <1>6 DEF GoodNodes

LEMMA KeepsTwice ==
  ASSUME NEW n \in Nodes, NEW k \in Nodes, NEW l \in Nodes, Keeps(l, k), Keeps(k, n)
  PROVE  Keeps(l, n)
<1>1. /\ l.roomId = n.roomId /\ l.isLogic = n.isLogic /\ l.started = n.started
      /\ l.logicRooms \subseteq n.logicRooms
  BY DEF Keeps
<1>2. \A o \in Joins : n.visitors[o] = << >> => l.visitors[o] = << >>
  BY DEF Keeps
<1>3. ASSUME NEW r \in Rooms
      PROVE  \/ l.rooms[r] = n.rooms[r]
             \/ l.rooms[r] = 0 /\ l.visitors[n.rooms[r]] = << >>
  <2>1. n.rooms[r] \in Objects
    BY DEF Nodes
  <2>2. QED
    BY <2>1 DEF Keeps, Objects
<1>4. QED
  BY <1>1, <1>2, <1>3 DEF Keeps

LEMMA ClosesSelf == ASSUME NEW n PROVE Closes(n, n)
BY DEF Closes, Keeps, EmptiesNone, StillHeard, Quiet

LEMMA ClosesTwice ==
  ASSUME NEW n \in Nodes, NEW k \in Nodes, NEW l \in Nodes, Closes(l, k), Closes(k, n)
  PROVE  Closes(l, n)
<1>1. Keeps(l, n)
  BY KeepsTwice DEF Closes
<1>2. ASSUME NEW r \in Rooms, l.rooms[r] # 0, l.members[l.rooms[r]] = << >>
      PROVE  n.members[l.rooms[r]] = << >>
  <2>1. k.rooms[r] = l.rooms[r] /\ k.members[l.rooms[r]] = << >>
    BY <1>2 DEF Closes, Keeps, EmptiesNone
  <2>2. QED
    BY <1>2, <2>1 DEF Closes, EmptiesNone
<1>3. StillHeard(l, n)
  BY DEF Closes, StillHeard
<1>4. Quiet(l, n)
  BY QuietTwice DEF Closes
<1>5. QED
  BY <1>1, <1>2, <1>3, <1>4 DEF Closes, EmptiesNone

-----------------------------------------------------------------------------
(* Messages.                                                               *)

Boxes == [Socks -> Seq(Notes)]

\* The states of a node that differ in what was written to the sockets.
Written(n) == {[n EXCEPT !.inbox = v] : v \in Boxes}

LEMMA WrittenIs ==
  ASSUME NEW n \in Nodes
  PROVE  /\ n \in Written(n)
         /\ \A k \in Written(n) : k \in Nodes /\ SameRooms(k, n) /\ OwnUsers(k, n)
         /\ \A k \in Written(n) : k = [n EXCEPT !.inbox = k.inbox] /\ k.inbox \in Boxes
         /\ \A k \in Written(n) :
              /\ k.users = n.users /\ k.userSock = n.userSock /\ k.userRoom = n.userRoom
              /\ k.sock = n.sock /\ k.listeners = n.listeners
              /\ k.sent = n.sent /\ k.pending = n.pending /\ k.early = n.early
<1>1. n = [n EXCEPT !.inbox = n.inbox] /\ n.inbox \in Boxes
  BY DEF Nodes, Boxes
<1>2. ASSUME NEW v \in Boxes
      PROVE  [n EXCEPT !.inbox = v] \in Nodes /\ [n EXCEPT !.inbox = v].inbox = v
  BY DEF Nodes, Boxes
<1>3. ASSUME NEW v \in Boxes
      PROVE  SameRooms([n EXCEPT !.inbox = v], n)
  BY DEF Nodes, SameRooms
<1>4. ASSUME NEW v \in Boxes
      PROVE  LET k == [n EXCEPT !.inbox = v]
             IN /\ k.users = n.users /\ k.userSock = n.userSock /\ k.userRoom = n.userRoom
                /\ k.sock = n.sock /\ k.listeners = n.listeners
                /\ k.sent = n.sent /\ k.pending = n.pending /\ k.early = n.early
  BY DEF Nodes
<1>5. n \in Written(n)
  BY <1>1 DEF Written
<1>6. ASSUME NEW k \in Written(n)
      PROVE  /\ k \in Nodes /\ SameRooms(k, n) /\ OwnUsers(k, n)
             /\ k = [n EXCEPT !.inbox = k.inbox] /\ k.inbox \in Boxes
             /\ k.users = n.users /\ k.userSock = n.userSock /\ k.userRoom = n.userRoom
             /\ k.sock = n.sock /\ k.listeners = n.listeners
             /\ k.sent = n.sent /\ k.pending = n.pending /\ k.early = n.early
  <2>1. PICK v \in Boxes : k = [n EXCEPT !.inbox = v]
    BY DEF Written
  <2>2. k \in Nodes /\ k.inbox = v /\ SameRooms(k, n)
    BY <1>2, <1>3, <2>1
  <2>3. /\ k.users = n.users /\ k.userSock = n.userSock /\ k.userRoom = n.userRoom
        /\ k.sock = n.sock /\ k.listeners = n.listeners
        /\ k.sent = n.sent /\ k.pending = n.pending /\ k.early = n.early
    BY <1>4, <2>1
  <2>4. OwnUsers(k, n)
    BY <2>3 DEF OwnUsers
  <2>5. QED
    BY <2>1, <2>2, <2>3, <2>4
<1>7. QED
  BY <1>5, <1>6

LEMMA SendSingleWrites ==
  ASSUME LifecycleAssumption, NEW n \in Nodes,
         NEW k \in Written(n), NEW o \in Joins, NEW m \in Texts, NEW p \in Players
  PROVE  SendSingle(k, o, m, p) \in Written(n)
<1> DEFINE s == IF k.users[p] = 0 THEN NoSock ELSE k.userSock[k.users[p]]
<1>1. k \in Nodes /\ k = [n EXCEPT !.inbox = k.inbox]
  BY WrittenIs
<1>2. CASE s = NoSock \/ k.sock[s] # "open"
  BY <1>2 DEF SendSingle
<1>3. CASE ~(s = NoSock \/ k.sock[s] # "open")
  <2>1. s \in Socks
    BY <1>1, <1>3 DEF Nodes, Objects
  <2>2. Heard(o, m) \in Notes
    BY DEF Heard, Notes, Texts
  <2> DEFINE b == Append(k.inbox[s], Heard(o, m))
             v == [k.inbox EXCEPT ![s] = b]
  <2>3. b \in Seq(Notes)
    BY <1>1, <2>1, <2>2 DEF Nodes
  <2>4. SendSingle(k, o, m, p) = [k EXCEPT !.inbox = v]
    BY <1>3 DEF SendSingle
  <2>5. v \in Boxes
    BY <1>1, <2>1, <2>3 DEF Nodes, Boxes
  <2> HIDE DEF s, b, v
  <2>6. [k EXCEPT !.inbox = v] = [n EXCEPT !.inbox = v]
    BY <1>1
  <2>7. QED
    BY <2>4, <2>5, <2>6 DEF Written
<1>4. QED
  BY <1>2, <1>3

\* The loop of UserMgr.send.
LEMMA SendAllRun ==
  ASSUME LifecycleAssumption, NEW n \in Nodes, NEW o \in Joins, NEW m \in Texts
  PROVE  LET to == Receivers(n, o, m)
         IN /\ to \in Seq(Players)
            /\ \E g \in [0..Len(to) -> Written(n)] :
                 /\ g[0] = n /\ SendAll(n, o, m) = g[Len(to)]
                 /\ \A i \in 1..Len(to) : g[i] = SendSingle(g[i - 1], o, m, to[i])
<1> DEFINE to == Receivers(n, o, m)
           l == Len(to)
           T == Written(n)
           Step(x, i) == IF i \in 1..l THEN SendSingle(x, o, m, to[i]) ELSE x
           F == [p \in T \X Nat |-> Step(p[1], p[2])]
           told == CHOOSE told : told = [i \in 0..l |-> IF i = 0 THEN n
                                            ELSE SendSingle(told[i - 1], o, m, to[i])]
<1>1. to \in Seq(Players)
  BY DEF Receivers, Nodes, Texts
<1>2. l \in Nat /\ \A i \in 1..l : to[i] \in Players
  BY <1>1
<1>3. SendAll(n, o, m) = told[l]
  BY DEF SendAll
<1> HIDE DEF to, l, T
<1>4. \A x \in T, i \in Nat : Step(x, i) \in T
  BY <1>2, SendSingleWrites DEF T
<1>5. F \in [T \X Nat -> T] /\ \A x \in T, i \in Nat : F[<<x, i>>] = Step(x, i)
  <2> HIDE DEF Step
  <2>1. QED
    BY <1>4
<1>6. n \in T
  BY WrittenIs DEF T
<1>7. PICK g \in [0..l -> T] : IsRun(g, n, F, l)
  <2> HIDE DEF F, told, Step
  <2>1. QED
    BY <1>2, <1>5, <1>6, RunExists
<1>8. ASSUME NEW i \in 0..l
      PROVE  g[i] = IF i = 0 THEN n ELSE SendSingle(g[i - 1], o, m, to[i])
  <2> HIDE DEF F, told
  <2>1. CASE i = 0
    BY <1>7, <2>1 DEF IsRun
  <2>2. CASE i # 0
    <3>1. i \in 1..l /\ i \in Nat /\ g[i - 1] \in T
      BY <1>2, <2>2
    <3>2. g[i] = F[<<g[i - 1], i>>]
      BY <1>7, <2>2 DEF IsRun
    <3>3. QED
      BY <1>5, <2>2, <3>1, <3>2
  <2>3. QED
    BY <2>1, <2>2
<1>9. g = [i \in 0..l |-> IF i = 0 THEN n ELSE SendSingle(g[i - 1], o, m, to[i])]
  BY <1>8
<1>10. told = [i \in 0..l |-> IF i = 0 THEN n ELSE SendSingle(told[i - 1], o, m, to[i])]
  BY <1>9
<1> HIDE DEF told, F, Step
<1>11. ASSUME NEW i \in 1..l
       PROVE  told[i] = SendSingle(told[i - 1], o, m, to[i])
  BY <1>2, <1>10
<1>12. told[0] = n /\ DOMAIN told = 0..l
  BY <1>2, <1>10
<1>13. \A i \in 0..l : told[i] \in T
  <2> DEFINE G == {i \in 0..l : told[i] \in T}
  <2>1. 0 \in G
    BY <1>2, <1>6, <1>12
  <2>2. ASSUME NEW i \in 1..l, i - 1 \in G PROVE i \in G
    <3>1. told[i] = SendSingle(told[i - 1], o, m, to[i]) /\ told[i - 1] \in T /\ i \in 0..l
      BY <1>2, <1>11, <2>2
    <3>2. QED
      BY <1>2, <3>1, SendSingleWrites DEF T
  <2> HIDE DEF G
  <2>3. \A i \in 0..l : i \in G
    BY <1>2, <2>1, <2>2, EveryTurn
  <2>4. QED
    BY <2>3 DEF G
<1>14. told \in [0..l -> T]
  BY <1>10, <1>13
<1>15. QED
  BY <1>1, <1>3, <1>11, <1>12, <1>14 DEF to, l, T

LEMMA SendAllWrites ==
  ASSUME LifecycleAssumption, NEW n \in Nodes,
         NEW k \in Written(n), NEW o \in Joins, NEW m \in Texts
  PROVE  SendAll(k, o, m) \in Written(n)
<1>1. k \in Nodes /\ k = [n EXCEPT !.inbox = k.inbox]
  BY WrittenIs
<1>2. SendAll(k, o, m) \in Written(k)
  <2> DEFINE to == Receivers(k, o, m)
  <2>1. /\ to \in Seq(Players)
        /\ \E g \in [0..Len(to) -> Written(k)] : SendAll(k, o, m) = g[Len(to)]
    BY <1>1, SendAllRun
  <2> HIDE DEF to
  <2>2. Len(to) \in 0..Len(to)
    BY <2>1
  <2>3. QED
    BY <2>1, <2>2
<1>3. PICK v \in Boxes : SendAll(k, o, m) = [k EXCEPT !.inbox = v]
  BY <1>2 DEF Written
<1>4. [k EXCEPT !.inbox = v] = [n EXCEPT !.inbox = v]
  BY <1>1
<1>5. QED
  BY <1>3, <1>4 DEF Written

\* The loop of Room._tryFlushSendPending.
LEMMA SendPendingRun ==
  ASSUME LifecycleAssumption, NEW n \in Nodes, NEW o \in Joins
  PROVE  LET wait == n.pending[o]
         IN /\ wait \in Seq(Texts)
            /\ \E g \in [0..Len(wait) -> Written(n)] :
                 /\ g[0] = n /\ PendingStays(n, o) = g[Len(wait)]
                 /\ \A i \in 1..Len(wait) : g[i] = SendAll(g[i - 1], o, wait[i])
<1> DEFINE wait == n.pending[o]
           l == Len(wait)
           T == Written(n)
           Step(x, i) == IF i \in 1..l THEN SendAll(x, o, wait[i]) ELSE x
           F == [p \in T \X Nat |-> Step(p[1], p[2])]
           told == CHOOSE told : told = [i \in 0..l |-> IF i = 0 THEN n
                                            ELSE SendAll(told[i - 1], o, wait[i])]
<1>1. wait \in Seq(Texts)
  BY DEF Nodes
<1>2. l \in Nat /\ \A i \in 1..l : wait[i] \in Texts
  BY <1>1
<1>3. PendingStays(n, o) = told[l]
  BY DEF PendingStays
<1> HIDE DEF wait, l, T
<1>4. \A x \in T, i \in Nat : Step(x, i) \in T
  BY <1>2, SendAllWrites DEF T
<1>5. F \in [T \X Nat -> T] /\ \A x \in T, i \in Nat : F[<<x, i>>] = Step(x, i)
  <2> HIDE DEF Step
  <2>1. QED
    BY <1>4
<1>6. n \in T
  BY WrittenIs DEF T
<1>7. PICK g \in [0..l -> T] : IsRun(g, n, F, l)
  <2> HIDE DEF F, told, Step
  <2>1. QED
    BY <1>2, <1>5, <1>6, RunExists
<1>8. ASSUME NEW i \in 0..l
      PROVE  g[i] = IF i = 0 THEN n ELSE SendAll(g[i - 1], o, wait[i])
  <2> HIDE DEF F, told
  <2>1. CASE i = 0
    BY <1>7, <2>1 DEF IsRun
  <2>2. CASE i # 0
    <3>1. i \in 1..l /\ i \in Nat /\ g[i - 1] \in T
      BY <1>2, <2>2
    <3>2. g[i] = F[<<g[i - 1], i>>]
      BY <1>7, <2>2 DEF IsRun
    <3>3. QED
      BY <1>5, <2>2, <3>1, <3>2
  <2>3. QED
    BY <2>1, <2>2
<1>9. g = [i \in 0..l |-> IF i = 0 THEN n ELSE SendAll(g[i - 1], o, wait[i])]
  BY <1>8
<1>10. told = [i \in 0..l |-> IF i = 0 THEN n ELSE SendAll(told[i - 1], o, wait[i])]
  BY <1>9
<1> HIDE DEF told, F, Step
<1>11. ASSUME NEW i \in 1..l
       PROVE  told[i] = SendAll(told[i - 1], o, wait[i])
  BY <1>2, <1>10
<1>12. told[0] = n /\ DOMAIN told = 0..l
  BY <1>2, <1>10
<1>13. \A i \in 0..l : told[i] \in T
  <2> DEFINE G == {i \in 0..l : told[i] \in T}
  <2>1. 0 \in G
    BY <1>2, <1>6, <1>12
  <2>2. ASSUME NEW i \in 1..l, i - 1 \in G PROVE i \in G
    <3>1. told[i] = SendAll(told[i - 1], o, wait[i]) /\ told[i - 1] \in T /\ i \in 0..l
      BY <1>2, <1>11, <2>2
    <3>2. QED
      BY <1>2, <3>1, SendAllWrites DEF T
  <2> HIDE DEF G
  <2>3. \A i \in 0..l : i \in G
    BY <1>2, <2>1, <2>2, EveryTurn
  <2>4. QED
    BY <2>3 DEF G
<1>14. told \in [0..l -> T]
  BY <1>10, <1>13
<1>15. QED
  BY <1>1, <1>3, <1>11, <1>12, <1>14 DEF wait, l, T

LEMMA SendPendingWrites ==
  ASSUME LifecycleAssumption, NEW n \in Nodes, NEW o \in Joins
  PROVE  \E k \in Written(n) :
           SendPending(n, o) = [k EXCEPT !.pending = [n.pending EXCEPT ![o] = << >>]]
<1> DEFINE wait == n.pending[o]
<1>1. /\ wait \in Seq(Texts)
      /\ \E g \in [0..Len(wait) -> Written(n)] : PendingStays(n, o) = g[Len(wait)]
  BY SendPendingRun
<1>2. PendingStays(n, o) \in Written(n)
  <2> HIDE DEF wait
  <2>1. Len(wait) \in 0..Len(wait)
    BY <1>1
  <2>2. QED
    BY <1>1, <2>1
<1>3. PendingStays(n, o).pending = n.pending
  BY <1>2, WrittenIs
<1>4. SendPending(n, o) = [PendingStays(n, o) EXCEPT !.pending = [n.pending EXCEPT ![o] = << >>]]
  BY <1>3 DEF SendPending
<1>5. QED
  BY <1>2, <1>4

LEMMA SetPending ==
  ASSUME NEW n \in Nodes, NEW o \in Joins, NEW v \in Seq(Texts)
  PROVE  LET k == [n EXCEPT !.pending = [n.pending EXCEPT ![o] = v]]
         IN k \in Nodes /\ SameRooms(k, n) /\ k.users = n.users
<1> DEFINE w == [n.pending EXCEPT ![o] = v]
<1>1. w \in [Joins -> Seq(Texts)]
  BY DEF Nodes
<1> HIDE DEF w
<1>2. [n EXCEPT !.pending = w] \in Nodes
  BY <1>1 DEF Nodes
<1>3. SameRooms([n EXCEPT !.pending = w], n) /\ [n EXCEPT !.pending = w].users = n.users
  BY DEF Nodes, SameRooms
<1>4. QED
  BY <1>2, <1>3 DEF w

LEMMA SendPendingGood ==
  ASSUME LifecycleAssumption, NEW K, NEW n \in GoodNodes(K), NEW o \in Joins
  PROVE  SendPending(n, o) \in GoodNodes(K) /\ SameRooms(SendPending(n, o), n)
<1>1. n \in Nodes
  BY DEF GoodNodes
<1>2. PICK k \in Written(n) :
        SendPending(n, o) = [k EXCEPT !.pending = [n.pending EXCEPT ![o] = << >>]]
  BY <1>1, SendPendingWrites
<1>3. k \in Nodes /\ k \in GoodNodes(K) /\ k.pending = n.pending /\ SameRooms(k, n)
  BY <1>1, WrittenIs, SameRoomsGood
<1>4. QED
  <2> DEFINE l == [k EXCEPT !.pending = [k.pending EXCEPT ![o] = << >>]]
  <2>1. << >> \in Seq(Texts)
    OBVIOUS
  <2>2. l \in Nodes /\ SameRooms(l, k) /\ l.users = k.users
    BY <1>3, <2>1, SetPending
  <2>3. SendPending(n, o) = l
    BY <1>2, <1>3
  <2> HIDE DEF l
  <2>4. SameRooms(l, n)
    BY <1>3, <2>2 DEF SameRooms
  <2>5. QED
    BY <1>3, <2>2, <2>3, <2>4, SameRoomsGood DEF OwnUsers

LEMMA RoomSendGood ==
  ASSUME LifecycleAssumption, NEW K, NEW n \in GoodNodes(K), NEW o \in Joins, NEW m \in Texts
  PROVE  /\ RoomSend(n, o, m) \in GoodNodes(K) /\ SameRooms(RoomSend(n, o, m), n)
         /\ RoomSend(n, o, m).users = n.users /\ RoomSend(n, o, m).sent = n.sent
<1>1. n \in Nodes
  BY DEF GoodNodes
<1>2. CASE ~n.isLogic[o]
  BY <1>2 DEF RoomSend, SameRooms
<1>3. CASE n.isLogic[o] /\ n.started[o]
  <2>1. RoomSend(n, o, m) = SendAll(n, o, m)
    BY <1>3 DEF RoomSend
  <2>2. SendAll(n, o, m) \in Written(n)
    BY <1>1, SendAllWrites, WrittenIs
  <2>3. QED
    BY <1>1, <2>1, <2>2, WrittenIs, SameRoomsGood
<1>4. CASE n.isLogic[o] /\ ~n.started[o]
  <2> DEFINE l == [n EXCEPT !.pending = [n.pending EXCEPT ![o] = Append(n.pending[o], m)]]
  <2>1. RoomSend(n, o, m) = l
    BY <1>4 DEF RoomSend
  <2>2. Append(n.pending[o], m) \in Seq(Texts)
    BY <1>1 DEF Nodes
  <2>3. l \in Nodes /\ SameRooms(l, n) /\ l.users = n.users
    BY <1>1, <2>2, SetPending
  <2>4. l.sent = n.sent
    BY <1>1 DEF Nodes
  <2> HIDE DEF l
  <2>5. QED
    BY <2>1, <2>3, <2>4, SameRoomsGood DEF OwnUsers
<1>5. QED
  BY <1>2, <1>3, <1>4

\* What waits has still to be sent in a room that starts.
Starting(k, n, o) ==
  /\ k.roomId = n.roomId /\ k.rooms = n.rooms /\ k.members = n.members
  /\ k.userSock = n.userSock /\ k.sent = n.sent /\ k.pending = n.pending
  /\ k.inbox = n.inbox /\ \A q \in Joins \ {o} : k.started[q] = n.started[q]
  /\ k.isLogic = n.isLogic /\ k.users = n.users /\ k.sock = n.sock /\ k.started[o]
  /\ k.early[o] = IF n.started[o] THEN n.early[o] ELSE n.sent[o]
  /\ \A q \in Joins \ {o} : k.early[q] = n.early[q]

\* A room starts when everyone it was appointed for is in it.
LEMMA StartsGood ==
  ASSUME LifecycleAssumption, NEW K, NEW n \in GoodNodes(K), NEW o \in Joins,
         \A r \in Rooms : n.rooms[r] = o => Expect[r] \subseteq ToSet(n.visitors[o]),
         n.roomId[o] # NoRoom
  PROVE  \E k \in GoodNodes(K) : Starting(k, n, o) /\ Start(n, o) = SendPending(k, o)
<1> DEFINE a == [n EXCEPT !.started = [n.started EXCEPT ![o] = TRUE]]
           e == IF n.started[o] THEN n.early[o] ELSE n.sent[o]
           b == [a EXCEPT !.early = [a.early EXCEPT ![o] = e]]
<1>1. n \in Nodes /\ n.started \in [Joins -> BOOLEAN] /\ e \in 0..Len(Says)
  BY SMTT(30) DEF GoodNodes, Nodes
<1>2. a \in Nodes
  BY <1>1 DEF Nodes
<1>3. /\ a.rooms = n.rooms /\ a.roomId = n.roomId /\ a.isLogic = n.isLogic
      /\ a.members = n.members /\ a.visitors = n.visitors /\ a.saves = n.saves
      /\ a.closed = n.closed /\ a.logicRooms = n.logicRooms /\ a.users = n.users
      /\ a.early = n.early /\ a.started = [n.started EXCEPT ![o] = TRUE]
  BY <1>1 DEF Nodes
<1>4. /\ a.userSock = n.userSock /\ a.sent = n.sent /\ a.pending = n.pending
       /\ a.inbox = n.inbox /\ a.sock = n.sock
  BY <1>1 DEF Nodes
<1> HIDE DEF a, e
<1>5. b \in Nodes
  BY <1>1, <1>2 DEF Nodes
<1>6. SameRooms(b, a) /\ b.users = a.users
  BY <1>2 DEF Nodes, SameRooms
<1>7. /\ b.userSock = a.userSock /\ b.sent = a.sent /\ b.pending = a.pending
       /\ b.inbox = a.inbox /\ b.sock = a.sock
       /\ b.early[o] = e /\ \A q \in Joins \ {o} : b.early[q] = a.early[q]
  BY <1>2 DEF Nodes
<1>8. a \in GoodNodes(K)
  <2>1. /\ FiledInv(n) /\ VisitInv(n) /\ OnceInv(n) /\ CompleteInv(n) /\ KnownInv(n, K)
        /\ BlankInv(n) /\ FullInv(n)
    BY DEF GoodNodes
  <2>5. FiledInv(a) /\ VisitInv(a) /\ KnownInv(a, K)
    <3>1. FiledInv(a)
      BY <1>3, <2>1 DEF FiledInv
    <3>2. VisitInv(a)
      BY <1>3, <2>1 DEF VisitInv
    <3>3. KnownInv(a, K)
      BY <1>3, <2>1 DEF KnownInv
    <3>4. QED
      BY <3>1, <3>2, <3>3
  <2>6. OnceInv(a) /\ CompleteInv(a)
    BY <1>3, <2>1 DEF OnceInv, CompleteInv
  <2>2. BlankInv(a)
    BY <1>1, <1>3, <2>1 DEF BlankInv
  <2>3. FullInv(a)
    BY <1>1, <1>3, <2>1, SMTT(30) DEF FullInv, Nodes, Objects
  <2>4. QED
    BY <1>2, <2>2, <2>3, <2>5, <2>6 DEF GoodNodes
<1>9. b \in GoodNodes(K)
  BY <1>5, <1>6, <1>8, SameRoomsGood DEF OwnUsers
<1>10. Start(n, o) = SendPending(b, o)
  BY <1>1, <1>3 DEF Start, b, a, e, Nodes
<1>11. Starting(b, n, o)
  <2> HIDE DEF b
  <2>1. b.started[o] /\ \A q \in Joins \ {o} : b.started[q] = n.started[q]
    BY <1>1, <1>3, <1>6 DEF SameRooms
  <2>2. b.early[o] = IF n.started[o] THEN n.early[o] ELSE n.sent[o]
    BY <1>7 DEF e
  <2>3. QED
    BY <1>3, <1>6, <1>4, <1>7, <2>1, <2>2 DEF Starting, SameRooms
<1> HIDE DEF b
<1>12. QED
  BY <1>9, <1>10, <1>11

LEMMA StartGood ==
  ASSUME LifecycleAssumption, NEW K, NEW n \in GoodNodes(K), NEW o \in Joins,
         \A r \in Rooms : n.rooms[r] = o => Expect[r] \subseteq ToSet(n.visitors[o]),
         n.roomId[o] # NoRoom
  PROVE  LET k == Start(n, o)
         IN /\ k \in GoodNodes(K) /\ k.roomId = n.roomId
            /\ k.rooms = n.rooms /\ k.members = n.members
<1>1. PICK b \in GoodNodes(K) : Starting(b, n, o) /\ Start(n, o) = SendPending(b, o)
  BY StartsGood
<1>2. QED
  BY <1>1, SendPendingGood DEF SameRooms, Starting

-----------------------------------------------------------------------------
(* Leaving and closing.                                                    *)

LEMMA JoinNumbers == LifecycleAssumption => Joins = 1..Len(JoinSock) /\ 0 \notin Joins
BY DEF LifecycleAssumption, Joins

LEMMA KeptTexts ==
  ASSUME NEW q \in Seq(Texts), NEW l \in Seq(Players)
  PROVE  [i \in DOMAIN q |-> IF q[i].live THEN Message(q[i].n, l, FALSE) ELSE q[i]]
           \in Seq(Texts)
<1> DEFINE Kept(i) == IF q[i].live THEN Message(q[i].n, l, FALSE) ELSE q[i]
<1>1. Len(q) \in Nat /\ DOMAIN q = 1..Len(q) /\ \A i \in 1..Len(q) : q[i] \in Texts
  OBVIOUS
<1>2. \A i \in 1..Len(q) : Kept(i) \in Texts
  BY <1>1 DEF Texts, Message
<1> HIDE DEF Kept
<1>3. [i \in 1..Len(q) |-> Kept(i)] \in Seq(Texts)
  BY <1>1, <1>2
<1>4. QED
  BY <1>1, <1>3 DEF Kept

LEMMA OnCloseIs ==
  ASSUME LifecycleAssumption, NEW n \in Nodes, NEW o \in Joins, n.roomId[o] # NoRoom
  PROVE  LET k    == OnClose(n, o)
             r    == n.roomId[o]
             save == [list |-> n.visitors[o], started |-> n.started[o]]
         IN /\ k \in Nodes
            /\ k.rooms = n.rooms /\ k.roomId = n.roomId /\ k.isLogic = n.isLogic
            /\ k.started = n.started /\ k.closed = n.closed /\ k.logicRooms = n.logicRooms
            /\ k.users = n.users
            /\ k.members = [n.members EXCEPT ![o] = << >>]
            /\ k.visitors = [n.visitors EXCEPT ![o] = << >>]
            /\ save \in Saves
            /\ k.saves = IF n.isLogic[o] /\ n.visitors[o] # << >>
                         THEN [n.saves EXCEPT ![r] = Append(n.saves[r], save)] ELSE n.saves
<1> DEFINE r    == n.roomId[o]
           save == [list |-> n.visitors[o], started |-> n.started[o]]
           sv   == IF n.isLogic[o] /\ n.visitors[o] # << >>
                   THEN [n.saves EXCEPT ![r] = Append(n.saves[r], save)] ELSE n.saves
           pn   == [i \in DOMAIN n.pending[o] |->
                      IF n.pending[o][i].live
                      THEN Message(n.pending[o][i].n, n.members[o], FALSE)
                      ELSE n.pending[o][i]]
           pe   == [n.pending EXCEPT ![o] = pn]
           me   == [n.members EXCEPT ![o] = << >>]
           vi   == [n.visitors EXCEPT ![o] = << >>]
           a    == [n EXCEPT !.saves = sv]
           b    == [a EXCEPT !.pending = pe]
           c    == [b EXCEPT !.members = me]
           d    == [c EXCEPT !.visitors = vi]
<1>1. save \in Saves /\ r \in Rooms
  BY DEF Saves, Nodes
<1>2. sv \in [Rooms -> Seq(Saves)]
  BY <1>1 DEF Nodes
<1>3. pe \in [Joins -> Seq(Texts)]
  <2>1. n.pending[o] \in Seq(Texts) /\ n.members[o] \in Seq(Players)
    BY DEF Nodes
  <2>3. pn \in Seq(Texts)
    BY <2>1, KeptTexts
  <2> HIDE DEF pn
  <2>4. QED
    BY <2>3 DEF Nodes
<1>4. me \in [Joins -> Seq(Players)] /\ vi \in [Joins -> Seq(Players)]
  BY DEF Nodes
<1>5. n.saves \in [Rooms -> Seq(Saves)]
  BY DEF Nodes
<1>6. OnClose(n, o) = d
  <2>1. sv = [n.saves EXCEPT ![r] = IF n.isLogic[o] /\ n.visitors[o] # << >>
                                    THEN Append(n.saves[r], save) ELSE n.saves[r]]
    BY <1>5
  <2>2. QED
    BY <2>1 DEF OnClose, SavedList, Nodes
<1> HIDE DEF sv, pe, me, vi, r, save, pn
<1>7. /\ a \in Nodes /\ a.saves = sv /\ a.rooms = n.rooms /\ a.roomId = n.roomId
      /\ a.isLogic = n.isLogic /\ a.started = n.started /\ a.closed = n.closed
      /\ a.logicRooms = n.logicRooms /\ a.users = n.users
  BY <1>2 DEF Nodes
<1> HIDE DEF a
<1>8. /\ b \in Nodes /\ b.saves = a.saves /\ b.rooms = a.rooms /\ b.roomId = a.roomId
      /\ b.isLogic = a.isLogic /\ b.started = a.started /\ b.closed = a.closed
      /\ b.logicRooms = a.logicRooms /\ b.users = a.users
  BY <1>3, <1>7 DEF Nodes
<1> HIDE DEF b
<1>9. /\ c \in Nodes /\ c.saves = b.saves /\ c.rooms = b.rooms /\ c.roomId = b.roomId
      /\ c.isLogic = b.isLogic /\ c.started = b.started /\ c.closed = b.closed
      /\ c.logicRooms = b.logicRooms /\ c.users = b.users /\ c.members = me
  BY <1>4, <1>8 DEF Nodes
<1> HIDE DEF c
<1>10. /\ d \in Nodes /\ d.saves = c.saves /\ d.rooms = c.rooms /\ d.roomId = c.roomId
       /\ d.isLogic = c.isLogic /\ d.started = c.started /\ d.closed = c.closed
       /\ d.logicRooms = c.logicRooms /\ d.users = c.users /\ d.members = c.members
       /\ d.visitors = vi
  BY <1>4, <1>9 DEF Nodes
<1> HIDE DEF d
<1>11. QED
  BY <1>1, <1>6, <1>7, <1>8, <1>9, <1>10 DEF sv, me, vi, r, save

\* A room that closes is silent: what waits for whoever is in it is now for those who
\* were.
LEMMA OnCloseHushed ==
  ASSUME LifecycleAssumption, NEW n \in Nodes, NEW o \in Joins, n.roomId[o] # NoRoom
  PROVE  Hushed(OnClose(n, o), n)
<1> DEFINE k  == OnClose(n, o)
           pn == [i \in DOMAIN n.pending[o] |->
                    IF n.pending[o][i].live
                    THEN Message(n.pending[o][i].n, n.members[o], FALSE)
                    ELSE n.pending[o][i]]
           pe == [n.pending EXCEPT ![o] = pn]
           me == [n.members EXCEPT ![o] = << >>]
<1>1. /\ n.pending \in [Joins -> Seq(Texts)] /\ n.members \in [Joins -> Seq(Players)]
  BY DEF Nodes
<1>2. k.inbox = n.inbox /\ k.sent = n.sent /\ k.started = n.started
      /\ k.userSock = n.userSock
  BY DEF OnClose, Nodes
<1>3. k.pending = pe
  BY DEF OnClose, Nodes
<1>4. k.members = me
  BY DEF OnClose, Nodes
<1> HIDE DEF k
<1>5. pe[o] = pn /\ \A q \in Joins \ {o} : pe[q] = n.pending[q]
  <2> HIDE DEF pn
  <2>1. QED
    BY <1>1
<1>6. me[o] = << >> /\ \A q \in Joins \ {o} : me[q] = n.members[q]
  BY <1>1
<1>7. /\ DOMAIN n.pending[o] = 1..Len(n.pending[o]) /\ Len(n.pending[o]) \in Nat
      /\ Len(pn) = Len(n.pending[o])
  <2>1. n.pending[o] \in Seq(Texts)
    BY <1>1
  <2>2. pn \in Seq(Texts) /\ DOMAIN pn = DOMAIN n.pending[o]
    BY <1>1, <2>1, KeptTexts
  <2> HIDE DEF pn
  <2>3. QED
    BY <2>1, <2>2
<1>8. ASSUME NEW i \in 1..Len(n.pending[o])
      PROVE  /\ pn[i].n = n.pending[o][i].n
             /\ pn[i] = n.pending[o][i] \/ pn[i].to = n.members[o]
  <2>1. pn[i] = IF n.pending[o][i].live
                THEN Message(n.pending[o][i].n, n.members[o], FALSE)
                ELSE n.pending[o][i]
    BY <1>7
  <2>2. QED
    BY <2>1, SMTT(30) DEF Message
<1> HIDE DEF pn, pe, me
<1>9. \A q \in Joins : Distinct(n.members[q]) => Distinct(k.members[q])
  <2>1. Distinct(<< >>)
    BY DEF Distinct
  <2>2. QED
    BY <1>4, <1>6, <2>1
<1>10. ASSUME NEW q \in Joins
       PROVE  /\ Len(k.pending[q]) = Len(n.pending[q])
              /\ \A i \in 1..Len(n.pending[q]) :
                   /\ k.pending[q][i].n = n.pending[q][i].n
                   /\ \/ k.pending[q][i] = n.pending[q][i]
                      \/ k.pending[q][i].to = n.members[q]
  BY <1>3, <1>5, <1>7, <1>8
<1>11. QED
  BY <1>2, <1>9, <1>10 DEF Hushed, k

LEMMA OnCloseQuiet ==
  ASSUME NEW n \in Nodes, NEW o \in Joins
  PROVE  LET k == OnClose(n, o)
         IN /\ k.inbox = n.inbox /\ k.sent = n.sent /\ k.early = n.early
            /\ k.sock = n.sock
            /\ \A q \in Joins \ {o} : k.pending[q] = n.pending[q]
<1> DEFINE pn == [i \in DOMAIN n.pending[o] |->
                    IF n.pending[o][i].live
                    THEN Message(n.pending[o][i].n, n.members[o], FALSE)
                    ELSE n.pending[o][i]]
           pe == [n.pending EXCEPT ![o] = pn]
           k  == OnClose(n, o)
<1>1. /\ k.inbox = n.inbox /\ k.sent = n.sent /\ k.early = n.early /\ k.sock = n.sock
  BY DEF OnClose, Nodes
<1>2. k.pending = pe
  BY DEF OnClose, Nodes
<1> HIDE DEF pn
<1>3. \A q \in Joins \ {o} : pe[q] = n.pending[q]
  BY DEF Nodes
<1>4. QED
  BY <1>1, <1>2, <1>3

Without(f, r) == [f EXCEPT ![r] = 0]

\* A room r is closed, whose Room object o is there, or is gone and empty.
LEMMA FinishCloseGood ==
  ASSUME LifecycleAssumption, NEW K, NEW n \in GoodNodes(K),
         NEW r \in Rooms, NEW o \in Joins, n.roomId[o] = r, r \in K, r \notin n.logicRooms,
         n.rooms[r] = o \/ (n.rooms[r] = 0 /\ n.visitors[o] = << >>)
  PROVE  /\ FinishClose(n, r, o) \in GoodNodes(K)
         /\ Closes(FinishClose(n, r, o), n)
         /\ FinishClose(n, r, o).users = n.users
         /\ FinishClose(n, r, o).rooms = Without(n.rooms, r)
<1> DEFINE k  == OnClose(n, o)
           ro == [n.rooms EXCEPT ![r] = 0]
           cl == n.closed \cup {r}
           l  == [k EXCEPT !.rooms = ro]
           m  == [l EXCEPT !.closed = cl]
           save == [list |-> n.visitors[o], started |-> n.started[o]]
<1>1. n \in Nodes /\ r # NoRoom
  BY DEF GoodNodes, LifecycleAssumption
<1>2. /\ FiledInv(n) /\ BlankInv(n) /\ VisitInv(n) /\ FullInv(n)
      /\ OnceInv(n) /\ CompleteInv(n) /\ KnownInv(n, K)
  BY DEF GoodNodes
<1>3. /\ k \in Nodes
      /\ k.rooms = n.rooms /\ k.roomId = n.roomId /\ k.isLogic = n.isLogic
      /\ k.started = n.started /\ k.closed = n.closed /\ k.logicRooms = n.logicRooms
      /\ k.users = n.users
      /\ k.members = [n.members EXCEPT ![o] = << >>]
      /\ k.visitors = [n.visitors EXCEPT ![o] = << >>]
      /\ save \in Saves
      /\ k.saves = IF n.isLogic[o] /\ n.visitors[o] # << >>
                   THEN [n.saves EXCEPT ![r] = Append(n.saves[r], save)] ELSE n.saves
  <2>1. n.roomId[o] # NoRoom
    BY <1>1
  <2> HIDE DEF m, l, k, save
  <2>2. LET c    == OnClose(n, o)
            q    == n.roomId[o]
            what == [list |-> n.visitors[o], started |-> n.started[o]]
        IN /\ c \in Nodes
           /\ c.rooms = n.rooms /\ c.roomId = n.roomId /\ c.isLogic = n.isLogic
           /\ c.started = n.started /\ c.closed = n.closed /\ c.logicRooms = n.logicRooms
           /\ c.users = n.users
           /\ c.members = [n.members EXCEPT ![o] = << >>]
           /\ c.visitors = [n.visitors EXCEPT ![o] = << >>]
           /\ what \in Saves
           /\ c.saves = IF n.isLogic[o] /\ n.visitors[o] # << >>
                        THEN [n.saves EXCEPT ![q] = Append(n.saves[q], what)] ELSE n.saves
    BY <1>1, <2>1, OnCloseIs, Zenon
  <2>3. QED
    BY <2>2, Zenon DEF k, save
<1>4. ro \in [Rooms -> Objects] /\ cl \in SUBSET Rooms
  BY <1>1 DEF Nodes, Objects
<1>5. FinishClose(n, r, o) = m
  BY <1>3 DEF FinishClose
<1> HIDE DEF k, ro, cl, save
<1>6. /\ l \in Nodes /\ l.rooms = ro /\ l.roomId = k.roomId /\ l.isLogic = k.isLogic
      /\ l.started = k.started /\ l.members = k.members /\ l.visitors = k.visitors
      /\ l.saves = k.saves /\ l.logicRooms = k.logicRooms /\ l.users = k.users
      /\ l.inbox = k.inbox /\ l.sent = k.sent /\ l.pending = k.pending
      /\ l.userSock = k.userSock /\ l.sock = k.sock /\ l.early = k.early
  BY <1>3, <1>4 DEF Nodes
<1> HIDE DEF l
<1>7. /\ m \in Nodes /\ m.rooms = l.rooms /\ m.roomId = l.roomId /\ m.isLogic = l.isLogic
      /\ m.started = l.started /\ m.members = l.members /\ m.visitors = l.visitors
      /\ m.saves = l.saves /\ m.logicRooms = l.logicRooms /\ m.closed = cl
      /\ m.users = l.users
      /\ m.inbox = l.inbox /\ m.sent = l.sent /\ m.pending = l.pending
      /\ m.userSock = l.userSock /\ m.sock = l.sock /\ m.early = l.early
  BY <1>4, <1>6 DEF Nodes
<1> HIDE DEF m
<1>8. /\ m.rooms = ro /\ m.roomId = n.roomId /\ m.isLogic = n.isLogic
      /\ m.started = n.started /\ m.logicRooms = n.logicRooms /\ m.closed = cl
      /\ m.users = n.users /\ m.saves = k.saves
      /\ m.members = [n.members EXCEPT ![o] = << >>]
      /\ m.visitors = [n.visitors EXCEPT ![o] = << >>]
  BY <1>3, <1>6, <1>7
<1>9. /\ n.rooms \in [Rooms -> Objects] /\ n.members \in [Joins -> Seq(Players)]
      /\ n.visitors \in [Joins -> Seq(Players)] /\ n.saves \in [Rooms -> Seq(Saves)]
      /\ n.closed \subseteq Rooms
  BY <1>1 DEF Nodes
<1>10. /\ ro[r] = 0 /\ \A q \in Rooms \ {r} : ro[q] = n.rooms[q]
       /\ m.members[o] = << >> /\ m.visitors[o] = << >>
       /\ \A q \in Joins \ {o} : /\ m.members[q] = n.members[q]
                                 /\ m.visitors[q] = n.visitors[q]
  BY <1>8, <1>9 DEF ro
<1>11. \A q \in Rooms \ {r} : n.rooms[q] # o
  BY <1>1, <1>2 DEF FiledInv, Objects, Joins
<1>12. FiledInv(m)
  BY <1>2, <1>8, <1>10 DEF FiledInv
<1>13. BlankInv(m) /\ VisitInv(m)
  <2>1. BlankInv(m)
    BY <1>2, <1>8, <1>10 DEF BlankInv
  <2>2. VisitInv(m)
    BY <1>2, <1>10 DEF VisitInv
  <2>3. QED
    BY <2>1, <2>2
<1>14. FullInv(m)
  <2>1. ASSUME NEW q \in Rooms, m.rooms[q] # 0, m.started[m.rooms[q]]
        PROVE  Expect[q] \subseteq ToSet(m.visitors[m.rooms[q]])
    <3>1. q # r /\ m.rooms[q] = n.rooms[q]
      BY <1>8, <1>10, <2>1
    <3>2. n.rooms[q] \in Joins \ {o}
      BY <1>9, <1>11, <2>1, <3>1 DEF Objects
    <3>3. QED
      BY <1>2, <1>8, <1>10, <2>1, <3>1, <3>2 DEF FullInv
  <2>2. QED
    BY <2>1 DEF FullInv
<1>15. \A q \in Rooms \ {r} : m.saves[q] = n.saves[q]
  BY <1>3, <1>8, <1>9
<1>16. ASSUME n.isLogic[o], n.visitors[o] # << >>
       PROVE  OnceInv(m) /\ CompleteInv(m)
  <2>1. m.saves[r] = Append(n.saves[r], save)
    BY <1>3, <1>8, <1>9, <1>16
  <2>2. n.rooms[r] = o /\ n.saves[r] = << >>
    BY <1>2, <1>16, JoinNumbers DEF OnceInv
  <2>3. Len(m.saves[r]) = 1 /\ m.saves[r][1] = save
    BY <2>1, <2>2
  <2>4. save.started => Expect[r] \subseteq ToSet(save.list)
    BY <1>2, <2>2, JoinNumbers DEF FullInv, save
  <2>5. OnceInv(m)
    <3>1. ASSUME NEW q \in Rooms
          PROVE  /\ Len(m.saves[q]) <= 1
                 /\ m.saves[q] # << >> => q \in m.closed
                 /\ q \in m.closed => q \notin m.logicRooms
                 /\ q \in m.closed /\ m.rooms[q] # 0 => ~m.isLogic[m.rooms[q]]
      <4>1. CASE q = r
        <5>1. Len(m.saves[r]) <= 1
          BY <2>3
        <5>2. m.rooms[r] = 0 /\ r \notin m.logicRooms /\ r \in m.closed
          BY <1>8, <1>10 DEF cl
        <5>3. QED
          BY <4>1, <5>1, <5>2
      <4>2. CASE q # r
        BY <1>2, <1>8, <1>10, <1>15, <4>2, SMTT(30) DEF OnceInv, cl
      <4>3. QED
        BY <4>1, <4>2
    <3>2. QED
      BY <3>1 DEF OnceInv
  <2>6. CompleteInv(m)
    <3>1. ASSUME NEW q \in Rooms, NEW i \in 1..Len(m.saves[q]), m.saves[q][i].started
          PROVE  Expect[q] \subseteq ToSet(m.saves[q][i].list)
      <4>1. CASE q = r
        <5>1. i = 1
          <6>1. i \in 1..1
            BY <2>3, <4>1
          <6>2. QED
            BY <6>1
        <5>2. QED
          BY <2>3, <2>4, <3>1, <4>1, <5>1
      <4>2. CASE q # r
        BY <1>2, <1>15, <3>1, <4>2 DEF CompleteInv
      <4>3. QED
        BY <4>1, <4>2
    <3>2. QED
      BY <3>1 DEF CompleteInv
  <2>7. QED
    BY <2>5, <2>6
<1>17. ASSUME ~(n.isLogic[o] /\ n.visitors[o] # << >>)
       PROVE  OnceInv(m) /\ CompleteInv(m)
  <2>1. m.saves = n.saves
    BY <1>3, <1>8, <1>17
  <2>2. OnceInv(m)
    BY <1>2, <1>8, <1>10, <2>1 DEF OnceInv, cl
  <2>3. CompleteInv(m)
    BY <1>2, <2>1 DEF CompleteInv
  <2>4. QED
    BY <2>2, <2>3
<1>18. KnownInv(m, K)
  BY <1>2, <1>8, <1>10 DEF KnownInv, cl
<1>19. Closes(m, n)
  <2>1. \A q \in Rooms : \/ m.rooms[q] = n.rooms[q]
                         \/ m.rooms[q] = 0 /\ m.visitors[n.rooms[q]] = << >>
    BY <1>8, <1>10
  <2>2. \A q \in Joins : n.visitors[q] = << >> => m.visitors[q] = << >>
    BY <1>10
  <2>3. EmptiesNone(m, n)
    <3>1. ASSUME NEW q \in Rooms, m.rooms[q] # 0
          PROVE  m.members[m.rooms[q]] = n.members[m.rooms[q]]
      <4>1. q # r /\ m.rooms[q] = n.rooms[q] /\ m.rooms[q] \in Objects
        BY <1>8, <1>9, <1>10, <3>1
      <4>2. m.rooms[q] \in Joins \ {o}
        BY <1>11, <3>1, <4>1 DEF Objects
      <4>3. QED
        BY <1>10, <4>2
    <3>2. QED
      BY <3>1 DEF EmptiesNone
  <2>4. StillHeard(m, n)
    <3>1. Hushed(k, n)
      BY <1>1, OnCloseHushed DEF k
    <3>2. Hushed(m, n)
      BY <1>6, <1>7, <3>1 DEF Hushed
    <3>3. QED
      BY <1>1, <1>7, <3>2, HushedHeard
  <2>5. Quiet(m, n)
    <3>1. /\ k.inbox = n.inbox /\ k.sent = n.sent /\ k.early = n.early /\ k.sock = n.sock
          /\ \A q \in Joins \ {o} : k.pending[q] = n.pending[q]
      BY <1>1, OnCloseQuiet DEF k
    <3>2. /\ m.inbox = n.inbox /\ m.sent = n.sent /\ m.early = n.early /\ m.sock = n.sock
          /\ m.pending = k.pending
      BY <1>6, <1>7, <3>1
    <3>3. ASSUME NEW q \in Rooms, m.rooms[q] # 0
          PROVE  m.rooms[q] = n.rooms[q] /\ m.pending[m.rooms[q]] = n.pending[m.rooms[q]]
      <4>1. q # r /\ m.rooms[q] = n.rooms[q] /\ m.rooms[q] \in Objects
        BY <1>8, <1>9, <1>10, <3>3
      <4>2. m.rooms[q] \in Joins \ {o}
        BY <1>11, <3>3, <4>1 DEF Objects
      <4>3. QED
        BY <3>1, <3>2, <4>1, <4>2
    <3>4. QED
      BY <3>2, <3>3 DEF Quiet
  <2>6. QED
    BY <1>8, <2>1, <2>2, <2>3, <2>4, <2>5 DEF Closes, Keeps
<1>20. OnceInv(m) /\ CompleteInv(m)
  BY <1>16, <1>17
<1>21. m \in GoodNodes(K)
  BY <1>7, <1>12, <1>13, <1>14, <1>18, <1>20 DEF GoodNodes
<1>22. QED
  BY <1>5, <1>8, <1>19, <1>21 DEF ro, Without

LEMMA DropRolesGood ==
  ASSUME LifecycleAssumption, NEW K, NEW n \in GoodNodes(K), NEW r \in Rooms
  PROVE  LET k == DropRoles(n, r)
         IN /\ k \in GoodNodes(K) /\ Closes(k, n)
            /\ k.logicRooms = n.logicRooms \ {r} /\ k.rooms = n.rooms /\ k.users = n.users
            /\ k.roomId = n.roomId /\ k.members = n.members /\ k.visitors = n.visitors
            /\ k.userRoom = n.userRoom
<1> DEFINE v == n.logicRooms \ {r}
           k == [n EXCEPT !.logicRooms = v]
<1>1. n \in Nodes /\ v \subseteq Rooms /\ v \subseteq n.logicRooms
  BY DEF GoodNodes, Nodes
<1>2. /\ FiledInv(n) /\ BlankInv(n) /\ VisitInv(n) /\ FullInv(n)
      /\ OnceInv(n) /\ CompleteInv(n) /\ KnownInv(n, K)
  BY DEF GoodNodes
<1>3. DropRoles(n, r) = k
  BY DEF DropRoles
<1> HIDE DEF v
<1>4. /\ k \in Nodes /\ k.logicRooms = v /\ k.rooms = n.rooms /\ k.users = n.users
      /\ k.roomId = n.roomId /\ k.isLogic = n.isLogic /\ k.members = n.members
      /\ k.visitors = n.visitors /\ k.started = n.started /\ k.closed = n.closed
      /\ k.saves = n.saves /\ k.userRoom = n.userRoom
      /\ k.inbox = n.inbox /\ k.sent = n.sent /\ k.pending = n.pending
      /\ k.userSock = n.userSock /\ k.sock = n.sock /\ k.early = n.early
  BY <1>1 DEF Nodes
<1> HIDE DEF k
<1>5. FiledInv(k) /\ BlankInv(k) /\ VisitInv(k) /\ FullInv(k)
  <2>1. FiledInv(k) /\ VisitInv(k)
    BY <1>2, <1>4 DEF FiledInv, VisitInv
  <2>2. BlankInv(k) /\ FullInv(k)
    BY <1>2, <1>4 DEF BlankInv, FullInv
  <2>3. QED
    BY <2>1, <2>2
<1>6. OnceInv(k) /\ CompleteInv(k) /\ KnownInv(k, K)
  <2>1. OnceInv(k)
    BY <1>1, <1>2, <1>4 DEF OnceInv
  <2>2. CompleteInv(k) /\ KnownInv(k, K)
    BY <1>1, <1>2, <1>4 DEF CompleteInv, KnownInv
  <2>3. QED
    BY <2>1, <2>2
<1>7. StillHeard(k, n)
  <2>1. Hushed(k, n)
    BY <1>4 DEF Hushed
  <2>2. QED
    BY <1>1, <1>4, <2>1, HushedHeard
<1>8. k \in GoodNodes(K) /\ Closes(k, n)
  <2>1. Quiet(k, n)
    BY <1>4 DEF Quiet
  <2>2. k \in GoodNodes(K)
    BY <1>4, <1>5, <1>6 DEF GoodNodes
  <2>3. QED
    BY <1>1, <1>4, <1>7, <2>1, <2>2 DEF Closes, Keeps, EmptiesNone
<1>9. QED
  BY <1>3, <1>4, <1>8 DEF v

\* The last player of the room r has left.
LEMMA LastLeavesGood ==
  ASSUME LifecycleAssumption, NEW K, NEW n \in GoodNodes(K), NEW r \in Rooms, n.rooms[r] # 0
  PROVE  LET k == LastLeaves(n, r, n.rooms[r])
         IN k \in GoodNodes(K) /\ Closes(k, n) /\ k.users = n.users
            /\ k.rooms = Without(n.rooms, r)
<1> DEFINE o == n.rooms[r]
           d == DropRoles(n, r)
           k == LastLeaves(n, r, o)
<1>1. n \in Nodes /\ o \in Joins /\ n.roomId[o] = r /\ r \in K
  BY DEF GoodNodes, Nodes, Objects, FiledInv, KnownInv
<1>2. /\ d \in GoodNodes(K) /\ Closes(d, n) /\ d.logicRooms = n.logicRooms \ {r}
      /\ d.rooms = n.rooms /\ d.users = n.users /\ d.roomId = n.roomId
  BY DropRolesGood
<1>3. k = FinishClose(d, r, o)
  BY DEF LastLeaves
<1> HIDE DEF d, k, o
<1>4. /\ k \in GoodNodes(K) /\ Closes(k, d) /\ k.users = d.users
      /\ k.rooms = Without(d.rooms, r)
  <2>1. /\ d \in GoodNodes(K) /\ o \in Joins /\ d.roomId[o] = r /\ r \in K
        /\ r \notin d.logicRooms
        /\ d.rooms[r] = o \/ (d.rooms[r] = 0 /\ d.visitors[o] = << >>)
    BY <1>1, <1>2 DEF o
  <2>2. /\ FinishClose(d, r, o) \in GoodNodes(K) /\ Closes(FinishClose(d, r, o), d)
        /\ FinishClose(d, r, o).users = d.users
        /\ FinishClose(d, r, o).rooms = Without(d.rooms, r)
    BY <2>1, FinishCloseGood
  <2>3. QED
    BY <1>3, <2>2
<1>5. Closes(k, n)
  BY <1>1, <1>2, <1>4, ClosesTwice DEF GoodNodes
<1>6. QED
  BY <1>2, <1>4, <1>5 DEF k, o

SetMembers(n, o, l) == [n EXCEPT !.members = [n.members EXCEPT ![o] = l]]

LEMMA SetMembersIs ==
  ASSUME NEW n \in Nodes, NEW o \in Joins, NEW l \in Seq(Players)
  PROVE  LET k == SetMembers(n, o, l)
         IN /\ k \in Nodes /\ k.members = [n.members EXCEPT ![o] = l]
            /\ k.logicRooms = n.logicRooms /\ k.rooms = n.rooms /\ k.roomId = n.roomId
            /\ k.isLogic = n.isLogic /\ k.visitors = n.visitors
            /\ k.started = n.started /\ k.closed = n.closed /\ k.saves = n.saves
            /\ k.users = n.users /\ k.userRoom = n.userRoom /\ k.inbox = n.inbox
            /\ k.pending = n.pending /\ k.sent = n.sent /\ k.sock = n.sock
            /\ k.listeners = n.listeners /\ k.userSock = n.userSock /\ k.early = n.early
<1> DEFINE v == [n.members EXCEPT ![o] = l]
<1>1. v \in [Joins -> Seq(Players)]
  BY DEF Nodes
<1> HIDE DEF v
<1>2. LET k == [n EXCEPT !.members = v]
      IN /\ k \in Nodes /\ k.members = v
         /\ k.logicRooms = n.logicRooms /\ k.rooms = n.rooms /\ k.roomId = n.roomId
         /\ k.isLogic = n.isLogic /\ k.visitors = n.visitors
         /\ k.started = n.started /\ k.closed = n.closed /\ k.saves = n.saves
  BY <1>1 DEF Nodes
<1>3. LET k == [n EXCEPT !.members = v]
      IN /\ k.users = n.users /\ k.userRoom = n.userRoom /\ k.inbox = n.inbox
         /\ k.pending = n.pending /\ k.sent = n.sent /\ k.sock = n.sock
         /\ k.listeners = n.listeners /\ k.userSock = n.userSock /\ k.early = n.early
  BY <1>1 DEF Nodes
<1>4. QED
  BY <1>2, <1>3 DEF SetMembers, v

LEMMA MembersGood ==
  ASSUME LifecycleAssumption, NEW K, NEW n \in GoodNodes(K), NEW o \in Joins,
         NEW l \in Seq(Players), ToSet(l) \subseteq ToSet(n.visitors[o]),
         n.roomId[o] # NoRoom
  PROVE  /\ SetMembers(n, o, l) \in GoodNodes(K) /\ Keeps(SetMembers(n, o, l), n)
         /\ Quiet(SetMembers(n, o, l), n)
         /\ (Distinct(n.members[o]) => Distinct(l)) => StillHeard(SetMembers(n, o, l), n)
<1> DEFINE k == SetMembers(n, o, l)
<1>1. n \in Nodes /\ n.members \in [Joins -> Seq(Players)]
  BY DEF GoodNodes, Nodes
<1>2. /\ FiledInv(n) /\ BlankInv(n) /\ VisitInv(n) /\ FullInv(n)
      /\ OnceInv(n) /\ CompleteInv(n) /\ KnownInv(n, K)
  BY DEF GoodNodes
<1>3. /\ k \in Nodes /\ k.members = [n.members EXCEPT ![o] = l]
      /\ k.logicRooms = n.logicRooms /\ k.rooms = n.rooms /\ k.roomId = n.roomId
      /\ k.isLogic = n.isLogic /\ k.visitors = n.visitors
      /\ k.started = n.started /\ k.closed = n.closed /\ k.saves = n.saves
      /\ k.users = n.users /\ k.userRoom = n.userRoom /\ k.inbox = n.inbox
      /\ k.pending = n.pending /\ k.sent = n.sent /\ k.sock = n.sock
      /\ k.listeners = n.listeners /\ k.userSock = n.userSock /\ k.early = n.early
  BY <1>1, SetMembersIs
<1> HIDE DEF k
<1>4. k.members[o] = l /\ \A q \in Joins \ {o} : k.members[q] = n.members[q]
  BY <1>1, <1>3
<1>5. FiledInv(k) /\ FullInv(k)
  BY <1>2, <1>3 DEF FiledInv, FullInv
<1>6. BlankInv(k)
  BY <1>2, <1>3, <1>4 DEF BlankInv
<1>7. VisitInv(k)
  BY <1>2, <1>3, <1>4 DEF VisitInv
<1>8. OnceInv(k) /\ CompleteInv(k)
  BY <1>2, <1>3 DEF OnceInv, CompleteInv
<1>9. KnownInv(k, K) /\ Keeps(k, n)
  BY <1>2, <1>3 DEF KnownInv, Keeps
<1>10. ASSUME Distinct(n.members[o]) => Distinct(l)
       PROVE  StillHeard(k, n)
  <2>1. Hushed(k, n)
    BY <1>3, <1>4, <1>10 DEF Hushed
  <2>2. QED
    BY <1>1, <1>3, <2>1, HushedHeard
<1>11. Quiet(k, n)
  BY <1>3 DEF Quiet
<1>12. QED
  BY <1>3, <1>5, <1>6, <1>7, <1>8, <1>9, <1>10, <1>11 DEF GoodNodes, k

LEMMA LeaveRoomGood ==
  ASSUME LifecycleAssumption, NEW K, NEW n \in GoodNodes(K),
         NEW r \in Rooms \cup {NoRoom}, NEW p \in Players
  PROVE  LET k == LeaveRoom(n, r, p)
         IN k \in GoodNodes(K) /\ Closes(k, n) /\ k.users = n.users
<1> DEFINE o    == IF r = NoRoom THEN 0 ELSE n.rooms[r]
           l    == RemoveFirst(n.members[o], p)
           out  == [n EXCEPT !.members[o] = RemoveFirst(@, p)]
           left == IF out.members[o] = << >> THEN LastLeaves(out, r, o) ELSE out
           end  == IF left.users[p] = 0 THEN left
                   ELSE [left EXCEPT !.userRoom[left.users[p]] = NoRoom]
<1>1. n \in Nodes
  BY DEF GoodNodes
<1>2. Closes(n, n)
  BY ClosesSelf
<1>3. CASE o = 0 \/ \A i \in DOMAIN n.members[o] : n.members[o][i] # p
  BY <1>2, <1>3 DEF LeaveRoom
<1>4. CASE ~(o = 0 \/ \A i \in DOMAIN n.members[o] : n.members[o][i] # p)
  <2>1. r \in Rooms /\ o = n.rooms[r] /\ o \in Joins /\ o # 0 /\ n.roomId[o] = r /\ r # NoRoom
    BY <1>1, <1>4 DEF GoodNodes, Nodes, Objects, FiledInv, LifecycleAssumption
  <2>2. LeaveRoom(n, r, p) = end
    BY <1>4, Zenon DEF LeaveRoom
  <2>13. out = SetMembers(n, o, l)
    BY DEF SetMembers
  <2>3. /\ l \in Seq(Players) /\ ToSet(l) \subseteq ToSet(n.visitors[o])
        /\ Distinct(n.members[o]) => Distinct(l)
    <3>1. n.members[o] \in Seq(Players) /\ ToSet(n.members[o]) \subseteq ToSet(n.visitors[o])
      BY <1>1, <2>1 DEF GoodNodes, Nodes, VisitInv
    <3>2. QED
      BY <3>1, RemoveFirstKeeps, RemoveFirstDistinct
  <2> HIDE DEF l, o, out, left, end
  <2>4. out \in GoodNodes(K) /\ Keeps(out, n) /\ StillHeard(out, n) /\ Quiet(out, n)
    BY <2>1, <2>3, <2>13, MembersGood
  <2>5. /\ out \in Nodes /\ out.users = n.users /\ out.rooms = n.rooms
        /\ \A q \in Joins \ {o} : out.members[q] = n.members[q]
    <3>1. o \in Joins /\ l \in Seq(Players)
      BY <2>1, <2>3
    <3>2. /\ SetMembers(n, o, l) \in Nodes /\ SetMembers(n, o, l).users = n.users
          /\ SetMembers(n, o, l).rooms = n.rooms
          /\ SetMembers(n, o, l).members = [n.members EXCEPT ![o] = l]
      BY <1>1, <3>1, SetMembersIs
    <3>3. QED
      BY <1>1, <2>13, <3>1, <3>2, SMTT(30) DEF Nodes
  <2>6. /\ left \in GoodNodes(K) /\ Closes(left, out) /\ left.users = n.users
        /\ out.members[o] = << >> => left.rooms[r] = 0
    <3>1. CASE out.members[o] = << >>
      <4>1. out.rooms[r] = o /\ out.rooms[r] # 0
        BY <2>1, <2>5
      <4>2. LET k == LastLeaves(out, r, out.rooms[r])
            IN k \in GoodNodes(K) /\ Closes(k, out) /\ k.users = out.users
               /\ k.rooms = Without(out.rooms, r)
        BY <2>1, <2>4, <4>1, LastLeavesGood, Zenon
      <4>3. /\ left \in GoodNodes(K) /\ Closes(left, out) /\ left.users = out.users
            /\ left.rooms = Without(out.rooms, r)
        BY <3>1, <4>1, <4>2 DEF left
      <4>4. left.rooms[r] = 0
        BY <2>1, <2>5, <4>3 DEF Without, Nodes
      <4>5. QED
        BY <2>5, <4>3, <4>4
    <3>2. CASE out.members[o] # << >>
      BY <2>4, <2>5, <3>2, ClosesSelf DEF left
    <3>3. QED
      BY <3>1, <3>2
  <2>7. left \in Nodes
    BY <2>6 DEF GoodNodes
  <2>8. Closes(left, n)
    <3>1. Keeps(left, n)
      BY <1>1, <2>4, <2>5, <2>6, <2>7, KeepsTwice DEF Closes
    <3>2. ASSUME NEW q \in Rooms, left.rooms[q] # 0, left.members[left.rooms[q]] = << >>
          PROVE  n.members[left.rooms[q]] = << >>
      <4>1. /\ left.rooms[q] = out.rooms[q] /\ left.rooms[q] = n.rooms[q]
            /\ out.members[left.rooms[q]] = << >>
        BY <2>5, <2>6, <3>2 DEF Closes, Keeps, EmptiesNone
      <4>2. left.rooms[q] \in Joins /\ n.roomId[left.rooms[q]] = q
        BY <1>1, <3>2, <4>1 DEF GoodNodes, Nodes, Objects, FiledInv
      <4>3. left.rooms[q] # o
        BY <2>1, <2>6, <3>2, <4>1, <4>2
      <4>4. QED
        BY <2>5, <4>1, <4>2, <4>3
    <3>3. StillHeard(left, n)
      BY <2>4, <2>6 DEF Closes, StillHeard
    <3>4. Quiet(left, n)
      BY <2>4, <2>6, QuietTwice DEF Closes
    <3>5. QED
      BY <3>1, <3>2, <3>3, <3>4 DEF Closes, EmptiesNone
  <2>9. /\ end \in Nodes /\ SameRooms(end, left) /\ end.users = left.users
        /\ SameTalk(end, left)
    <3>1. left.users[p] \in Objects
      BY <2>7 DEF Nodes
    <3>2. CASE left.users[p] = 0
      BY <2>7, <3>2 DEF SameRooms, SameTalk, end
    <3>3. CASE left.users[p] # 0
      <4> DEFINE v == [left.userRoom EXCEPT ![left.users[p]] = NoRoom]
      <4>1. v \in [Joins -> Rooms \cup {NoRoom}]
        BY <2>7 DEF Nodes
      <4>2. end = [left EXCEPT !.userRoom = v]
        BY <3>3 DEF end
      <4> HIDE DEF v
      <4>3. QED
        BY <2>7, <4>1, <4>2 DEF Nodes, SameRooms, SameTalk
    <3>4. QED
      BY <3>2, <3>3
  <2>10. end \in GoodNodes(K) /\ Closes(end, left)
    BY <2>6, <2>9, SameRoomsGood DEF OwnUsers
  <2>11. Closes(end, n)
    BY <1>1, <2>7, <2>8, <2>9, <2>10, ClosesTwice
  <2>12. QED
    BY <2>2, <2>6, <2>9, <2>10, <2>11
<1>5. QED
  BY <1>3, <1>4

\* User.doLogout: the socket is closed, before the player leaves.
Cut(n, x) ==
  LET s == n.userSock[x]
  IN IF s = NoSock THEN n
     ELSE [n EXCEPT !.sock = [n.sock EXCEPT ![s] = IF n.sock[s] = "open" THEN "closing"
                                                   ELSE n.sock[s]],
                    !.userSock = [n.userSock EXCEPT ![x] = NoSock]]

LEMMA CutIs ==
  ASSUME NEW n \in Nodes, NEW x \in Joins
  PROVE  LET k == Cut(n, x)
         IN /\ k \in Nodes /\ SameRooms(k, n) /\ SameTalk(k, n) /\ k.users = n.users
            /\ k.userRoom = n.userRoom /\ k.inbox = n.inbox /\ k.pending = n.pending
            /\ k.sent = n.sent /\ k.listeners = n.listeners
<1> DEFINE s == n.userSock[x]
           v == [n.sock EXCEPT ![s] = IF n.sock[s] = "open" THEN "closing" ELSE n.sock[s]]
           w == [n.userSock EXCEPT ![x] = NoSock]
           a == [n EXCEPT !.sock = v]
           b == [a EXCEPT !.userSock = w]
<1>1. CASE s = NoSock
  BY <1>1 DEF Cut, SameRooms, SameTalk
<1>2. CASE s # NoSock
  <2>1. v \in [Socks -> {"open", "closing", "closed"}] /\ w \in [Joins -> Socks \cup {NoSock}]
    BY <1>2 DEF Nodes
  <2>2. Cut(n, x) = b
    BY <1>2 DEF Cut
  <2>7. /\ \A y \in Joins : w[y] \in {n.userSock[y], NoSock}
        /\ \A t \in Socks : v[t] = "open" => n.sock[t] = "open"
    BY <1>2 DEF Nodes
  <2> HIDE DEF s, v, w
  <2>3. /\ a \in Nodes /\ SameRooms(a, n) /\ a.users = n.users /\ a.userRoom = n.userRoom
        /\ a.inbox = n.inbox /\ a.pending = n.pending /\ a.sent = n.sent
        /\ a.listeners = n.listeners /\ a.userSock = n.userSock
        /\ a.early = n.early /\ a.sock = v
    BY <2>1 DEF Nodes, SameRooms
  <2> HIDE DEF a
  <2>4. /\ b \in Nodes /\ SameRooms(b, a) /\ b.users = a.users /\ b.userRoom = a.userRoom
        /\ b.inbox = a.inbox /\ b.pending = a.pending /\ b.sent = a.sent
        /\ b.listeners = a.listeners /\ b.userSock = w
        /\ b.early = a.early /\ b.sock = a.sock
    BY <2>1, <2>3 DEF Nodes, SameRooms
  <2> HIDE DEF b
  <2>5. SameRooms(b, n)
    BY <2>3, <2>4 DEF SameRooms
  <2>6. SameTalk(b, n)
    BY <2>3, <2>4, <2>7 DEF SameTalk
  <2>8. QED
    BY <2>2, <2>3, <2>4, <2>5, <2>6
<1>3. QED
  BY <1>1, <1>2

LEMMA LogoutIs ==
  ASSUME NEW n \in Nodes, NEW x \in Joins
  PROVE  DoLogout(n, x) =
           [LeaveRoom(Cut(n, x), Cut(n, x).userRoom[x], Player(x)) EXCEPT !.users[Player(x)] = 0]
<1> DEFINE s == n.userSock[x]
<1>1. CASE s = NoSock
  BY <1>1 DEF DoLogout, Cut
<1>2. CASE s # NoSock
  <2> DEFINE c == [n EXCEPT !.sock[s] = IF @ = "open" THEN "closing" ELSE @,
                            !.userSock[x] = NoSock]
  <2>1. DoLogout(n, x) = [LeaveRoom(c, c.userRoom[x], Player(x)) EXCEPT !.users[Player(x)] = 0]
    BY <1>2, Zenon DEF DoLogout
  <2>2. Cut(n, x) = c
    BY <1>2 DEF Cut, Nodes
  <2> HIDE DEF c
  <2>3. QED
    BY <2>1, <2>2, Zenon
<1>3. QED
  BY <1>1, <1>2

LEMMA PlayerOf ==
  ASSUME LifecycleAssumption, NEW x \in Joins
  PROVE  JoinSock[x] \in Socks /\ Player(x) \in Players
BY DEF LifecycleAssumption, Joins, Player

LEMMA SetUsersIs ==
  ASSUME NEW n \in Nodes, NEW p \in Players, NEW x \in Objects
  PROVE  LET k == [n EXCEPT !.users = [n.users EXCEPT ![p] = x]]
         IN /\ k \in Nodes /\ SameRooms(k, n) /\ SameTalk(k, n)
            /\ k.users = [n.users EXCEPT ![p] = x]
<1> DEFINE v == [n.users EXCEPT ![p] = x]
<1>1. v \in [Players -> Objects]
  BY DEF Nodes
<1> HIDE DEF v
<1>2. LET k == [n EXCEPT !.users = v]
      IN k \in Nodes /\ SameRooms(k, n) /\ SameTalk(k, n) /\ k.users = v
  BY <1>1 DEF Nodes, SameRooms, SameTalk
<1>3. QED
  BY <1>2 DEF v

LEMMA DoLogoutGood ==
  ASSUME LifecycleAssumption, NEW K, NEW n \in GoodNodes(K), NEW x \in Joins
  PROVE  DoLogout(n, x) \in GoodNodes(K) /\ Closes(DoLogout(n, x), n)
<1> DEFINE p == Player(x)
           c == Cut(n, x)
           l == LeaveRoom(c, c.userRoom[x], p)
           k == [l EXCEPT !.users = [l.users EXCEPT ![p] = 0]]
<1>1. n \in Nodes /\ p \in Players
  BY PlayerOf DEF GoodNodes
<1>2. c \in Nodes /\ SameRooms(c, n) /\ SameTalk(c, n) /\ c.users = n.users
  BY <1>1, CutIs
<1>3. c \in GoodNodes(K) /\ Closes(c, n)
  BY <1>2, SameRoomsGood DEF OwnUsers
<1>4. c.userRoom[x] \in Rooms \cup {NoRoom}
  BY <1>2 DEF Nodes
<1>5. DoLogout(n, x) = k
  <2>1. DoLogout(n, x) = [l EXCEPT !.users[p] = 0]
    BY <1>1, LogoutIs
  <2> HIDE DEF l, p
  <2>2. QED
    BY <2>1
<1> HIDE DEF c, p
<1>6. l \in GoodNodes(K) /\ Closes(l, c)
  BY <1>1, <1>3, <1>4, LeaveRoomGood
<1> HIDE DEF l
<1>7. l \in Nodes /\ l.users \in [Players -> Objects]
  BY <1>6 DEF GoodNodes, Nodes
<1>8. k \in Nodes /\ SameRooms(k, l) /\ SameTalk(k, l) /\ k.users = [l.users EXCEPT ![p] = 0]
  <2>1. 0 \in Objects
    BY DEF Objects
  <2>2. QED
    BY <1>1, <1>7, <2>1, SetUsersIs, Zenon
<1>9. k \in GoodNodes(K) /\ Closes(k, l)
  BY <1>1, <1>6, <1>7, <1>8, SameRoomsGood DEF OwnUsers
<1> HIDE DEF k
<1>10. Closes(l, n)
  BY <1>1, <1>2, <1>3, <1>6, <1>7, ClosesTwice
<1>11. Closes(k, n)
  BY <1>1, <1>7, <1>8, <1>9, <1>10, ClosesTwice
<1>12. QED
  BY <1>5, <1>9, <1>11

LEMMA SetStateIs ==
  ASSUME NEW n \in Nodes, NEW x \in Joins, NEW v \in {"init", "entered", "disconnect"}
  PROVE  LET k == [n EXCEPT !.userState[x] = v]
         IN /\ k \in Nodes /\ SameRooms(k, n) /\ k.users = n.users
            /\ k.userRoom = n.userRoom /\ k.inbox = n.inbox /\ k.pending = n.pending
            /\ k.sent = n.sent /\ k.listeners = n.listeners /\ k.sock = n.sock
            /\ k.userSock = n.userSock /\ k.early = n.early
<1> DEFINE w == [n.userState EXCEPT ![x] = v]
<1>1. w \in [Joins -> {"init", "entered", "disconnect"}]
  BY DEF Nodes
<1>2. [n EXCEPT !.userState[x] = v] = [n EXCEPT !.userState = w]
  OBVIOUS
<1> HIDE DEF w
<1>3. LET k == [n EXCEPT !.userState = w]
      IN /\ k \in Nodes /\ SameRooms(k, n) /\ k.users = n.users
         /\ k.userRoom = n.userRoom /\ k.inbox = n.inbox /\ k.pending = n.pending
         /\ k.sent = n.sent /\ k.listeners = n.listeners /\ k.sock = n.sock
         /\ k.userSock = n.userSock /\ k.early = n.early
  BY <1>1 DEF Nodes, SameRooms
<1>4. QED
  BY <1>2, <1>3

LEMMA DisconnectGood ==
  ASSUME LifecycleAssumption, NEW K, NEW n \in GoodNodes(K), NEW x \in Joins
  PROVE  Disconnect(n, x) \in GoodNodes(K) /\ Closes(Disconnect(n, x), n)
<1> DEFINE k == [n EXCEPT !.userState[x] = "disconnect"]
           d == DoLogout(k, x)
<1>1. n \in Nodes
  BY DEF GoodNodes
<1>2. k \in Nodes /\ SameRooms(k, n) /\ SameTalk(k, n) /\ k.users = n.users
  BY <1>1, SetStateIs, ZenonT(60) DEF SameTalk
<1>3. Disconnect(n, x) = d
  BY DEF Disconnect
<1> HIDE DEF k
<1>4. k \in GoodNodes(K) /\ Closes(k, n)
  BY <1>2, SameRoomsGood DEF OwnUsers
<1>5. d \in GoodNodes(K) /\ Closes(d, k)
  BY <1>4, DoLogoutGood
<1> HIDE DEF d
<1>6. Closes(d, n)
  <2>1. d \in Nodes
    BY <1>5 DEF GoodNodes
  <2>2. QED
    BY <1>1, <1>2, <1>4, <1>5, <2>1, ClosesTwice
<1>7. QED
  BY <1>3, <1>5, <1>6

\* The loop over the listeners of a socket.
LEMMA DisconnectRun ==
  ASSUME LifecycleAssumption, NEW K, NEW n \in GoodNodes(K), NEW xs \in Seq(Joins)
  PROVE  \E g \in [0..Len(xs) -> GoodNodes(K)] :
           /\ g[0] = n /\ DisconnectAll(n, xs) = g[Len(xs)]
           /\ \A i \in 1..Len(xs) : g[i] = Disconnect(g[i - 1], xs[i])
<1> DEFINE l == Len(xs)
           T == GoodNodes(K)
           Step(x, i) == IF i \in 1..l THEN Disconnect(x, xs[i]) ELSE x
           F == [p \in T \X Nat |-> Step(p[1], p[2])]
           gone == CHOOSE gone : gone = [i \in 0..l |-> IF i = 0 THEN n
                                            ELSE Disconnect(gone[i - 1], xs[i])]
<1>2. l \in Nat /\ \A i \in 1..l : xs[i] \in Joins
  OBVIOUS
<1>3. DisconnectAll(n, xs) = gone[l]
  BY DEF DisconnectAll
<1> HIDE DEF l, T
<1>4. \A x \in T, i \in Nat : Step(x, i) \in T
  BY <1>2, DisconnectGood DEF T
<1>5. F \in [T \X Nat -> T] /\ \A x \in T, i \in Nat : F[<<x, i>>] = Step(x, i)
  <2> HIDE DEF Step
  <2>1. QED
    BY <1>4
<1>6. n \in T
  BY DEF T
<1>7. PICK g \in [0..l -> T] : IsRun(g, n, F, l)
  <2> HIDE DEF F, gone, Step
  <2>1. QED
    BY <1>2, <1>5, <1>6, RunExists
<1>8. ASSUME NEW i \in 0..l
      PROVE  g[i] = IF i = 0 THEN n ELSE Disconnect(g[i - 1], xs[i])
  <2> HIDE DEF F, gone
  <2>1. CASE i = 0
    BY <1>7, <2>1 DEF IsRun
  <2>2. CASE i # 0
    <3>1. i \in 1..l /\ i \in Nat /\ g[i - 1] \in T
      BY <1>2, <2>2
    <3>2. g[i] = F[<<g[i - 1], i>>]
      BY <1>7, <2>2 DEF IsRun
    <3>3. QED
      BY <1>5, <2>2, <3>1, <3>2
  <2>3. QED
    BY <2>1, <2>2
<1>9. g = [i \in 0..l |-> IF i = 0 THEN n ELSE Disconnect(g[i - 1], xs[i])]
  BY <1>8
<1>10. gone = [i \in 0..l |-> IF i = 0 THEN n ELSE Disconnect(gone[i - 1], xs[i])]
  BY <1>9
<1> HIDE DEF gone, F, Step
<1>11. ASSUME NEW i \in 1..l
       PROVE  gone[i] = Disconnect(gone[i - 1], xs[i])
  BY <1>2, <1>10
<1>12. gone[0] = n /\ DOMAIN gone = 0..l
  BY <1>2, <1>10
<1>13. \A i \in 0..l : gone[i] \in T
  <2> DEFINE G == {i \in 0..l : gone[i] \in T}
  <2>1. 0 \in G
    BY <1>2, <1>6, <1>12
  <2>2. ASSUME NEW i \in 1..l, i - 1 \in G PROVE i \in G
    <3>1. gone[i] = Disconnect(gone[i - 1], xs[i]) /\ gone[i - 1] \in T /\ i \in 0..l
      BY <1>2, <1>11, <2>2
    <3>2. QED
      BY <1>2, <3>1, DisconnectGood DEF T
  <2> HIDE DEF G
  <2>3. \A i \in 0..l : i \in G
    BY <1>2, <2>1, <2>2, EveryTurn
  <2>4. QED
    BY <2>3 DEF G
<1>14. gone \in [0..l -> T]
  BY <1>10, <1>13
<1>15. QED
  BY <1>3, <1>11, <1>12, <1>14 DEF l, T

LEMMA DisconnectAllGood ==
  ASSUME LifecycleAssumption, NEW K, NEW n \in GoodNodes(K), NEW xs \in Seq(Joins)
  PROVE  DisconnectAll(n, xs) \in GoodNodes(K) /\ Closes(DisconnectAll(n, xs), n)
<1> DEFINE l == Len(xs)
<1>1. PICK g \in [0..l -> GoodNodes(K)] :
        /\ g[0] = n /\ DisconnectAll(n, xs) = g[l]
        /\ \A i \in 1..l : g[i] = Disconnect(g[i - 1], xs[i])
  BY DisconnectRun
<1>2. l \in Nat /\ \A i \in 1..l : xs[i] \in Joins
  OBVIOUS
<1> HIDE DEF l
<1> DEFINE G == {i \in 0..l : Closes(g[i], n)}
<1>3. 0 \in G
  BY <1>1, <1>2, ClosesSelf
<1>4. ASSUME NEW i \in 1..l, i - 1 \in G PROVE i \in G
  <2>1. /\ i - 1 \in 0..l /\ i \in 0..l /\ g[i - 1] \in GoodNodes(K)
        /\ g[i] = Disconnect(g[i - 1], xs[i]) /\ xs[i] \in Joins
    BY <1>1, <1>2
  <2>2. Closes(g[i], g[i - 1])
    BY <2>1, DisconnectGood
  <2>3. n \in Nodes /\ g[i] \in Nodes /\ g[i - 1] \in Nodes /\ Closes(g[i - 1], n)
    BY <1>1, <1>4, <2>1 DEF GoodNodes
  <2>4. Closes(g[i], n)
    BY <2>2, <2>3, ClosesTwice
  <2>5. QED
    BY <2>1, <2>4
<1> HIDE DEF G
<1>5. \A i \in 0..l : i \in G
  BY <1>2, <1>3, <1>4, EveryTurn
<1>6. l \in 0..l
  BY <1>2
<1>7. QED
  BY <1>1, <1>5, <1>6 DEF G

\* A turn of the loop of Room.closeRoom, over the Room object o.
CloseTurn(e, i, o) ==
  LET m == e.node
      p == m.members[o][i]
  IN IF e.thrown \/ i > Len(m.members[o]) THEN e
     ELSE IF m.users[p] = 0 THEN [node |-> m, thrown |-> TRUE]
     ELSE [node |-> [DoLogout(m, m.users[p]) EXCEPT !.logicUsers = @ \ {p}],
           thrown |-> FALSE]

LEMMA DropUserIs ==
  ASSUME NEW n \in Nodes, NEW p
  PROVE  LET k == [n EXCEPT !.logicUsers = @ \ {p}]
         IN /\ k \in Nodes /\ SameRooms(k, n) /\ k.users = n.users
            /\ k.userRoom = n.userRoom /\ k.inbox = n.inbox /\ k.pending = n.pending
            /\ k.sent = n.sent /\ k.listeners = n.listeners /\ k.sock = n.sock
            /\ k.userSock = n.userSock /\ k.early = n.early
BY DEF Nodes, SameRooms

LEMMA CloseTurnGood ==
  ASSUME LifecycleAssumption, NEW K, NEW o \in Joins,
         NEW e \in [node : GoodNodes(K), thrown : BOOLEAN], NEW i \in Nat \ {0}
  PROVE  /\ CloseTurn(e, i, o) \in [node : GoodNodes(K), thrown : BOOLEAN]
         /\ Closes(CloseTurn(e, i, o).node, e.node)
<1> DEFINE m == e.node
           p == m.members[o][i]
           x == m.users[p]
           d == DoLogout(m, x)
           k == [d EXCEPT !.logicUsers = @ \ {p}]
<1>1. m \in GoodNodes(K) /\ m \in Nodes /\ Closes(m, m)
  BY ClosesSelf DEF GoodNodes
<1>2. CASE e.thrown \/ i > Len(m.members[o])
  BY <1>1, <1>2 DEF CloseTurn
<1>3. CASE ~(e.thrown \/ i > Len(m.members[o])) /\ x = 0
  BY <1>1, <1>3 DEF CloseTurn
<1>4. CASE ~(e.thrown \/ i > Len(m.members[o])) /\ x # 0
  <2>1. m.members[o] \in Seq(Players)
    BY <1>1 DEF Nodes
  <2>2. p \in Players
    BY <1>4, <2>1
  <2>3. x \in Joins
    BY <1>1, <1>4, <2>2 DEF Nodes, Objects
  <2>4. CloseTurn(e, i, o) = [node |-> k, thrown |-> FALSE]
    BY <1>4 DEF CloseTurn
  <2> HIDE DEF m, x, p
  <2>5. d \in GoodNodes(K) /\ Closes(d, m)
    BY <1>1, <2>3, DoLogoutGood
  <2> HIDE DEF d
  <2>6. d \in Nodes
    BY <2>5 DEF GoodNodes
  <2>7. k \in Nodes /\ SameRooms(k, d) /\ SameTalk(k, d) /\ k.users = d.users
    BY <2>6, DropUserIs DEF SameTalk
  <2> HIDE DEF k
  <2>8. k \in GoodNodes(K) /\ Closes(k, d)
    BY <2>5, <2>7, SameRoomsGood DEF OwnUsers
  <2>9. Closes(k, m)
    BY <1>1, <2>5, <2>6, <2>7, <2>8, ClosesTwice
  <2>10. QED
    BY <2>4, <2>8, <2>9 DEF m
<1>5. QED
  BY <1>2, <1>3, <1>4

\* The turns g of the loop of Room.closeRoom, and what follows it.
IsClosing(g, n, r) ==
  LET o == n.rooms[r]
      L == Len(n.members[o])
  IN /\ g[0] = [node |-> DropRoles(n, r), thrown |-> FALSE]
     /\ \A i \in 1..L : g[i] = CloseTurn(g[i - 1], i, o)
     /\ CloseRoom(n, r) = IF g[L].thrown THEN g[L].node ELSE FinishClose(g[L].node, r, o)

Turns(K) == [node : GoodNodes(K), thrown : BOOLEAN]

LEMMA CloseRoomRun ==
  ASSUME LifecycleAssumption, NEW K, NEW n \in GoodNodes(K), NEW r \in Rooms, n.rooms[r] # 0
  PROVE  LET L == Len(n.members[n.rooms[r]])
         IN L \in Nat /\ \E g \in [0..L -> Turns(K)] : IsClosing(g, n, r)
<1> DEFINE o == n.rooms[r]
           L == Len(n.members[o])
           T == [node : GoodNodes(K), thrown : BOOLEAN]
           b == [node |-> DropRoles(n, r), thrown |-> FALSE]
           Step(x, i) == IF i \in 1..L THEN CloseTurn(x, i, o) ELSE x
           F == [p \in T \X Nat |-> Step(p[1], p[2])]
           loop == CHOOSE loop : loop = [i \in 0..L |-> IF i = 0 THEN b
                                            ELSE CloseTurn(loop[i - 1], i, o)]
<1>1. n \in Nodes /\ o \in Joins /\ L \in Nat
  BY DEF GoodNodes, Nodes, Objects
<1>2. CloseRoom(n, r) = IF loop[L].thrown THEN loop[L].node
                        ELSE FinishClose(loop[L].node, r, o)
  BY DEF CloseRoom, CloseTurn
<1>3. b \in T
  BY DropRolesGood
<1> HIDE DEF L, T, o, b
<1>4. \A x \in T, i \in Nat : Step(x, i) \in T
  BY <1>1, CloseTurnGood DEF T
<1>5. F \in [T \X Nat -> T] /\ \A x \in T, i \in Nat : F[<<x, i>>] = Step(x, i)
  <2> HIDE DEF Step
  <2>1. QED
    BY <1>4
<1>7. PICK g \in [0..L -> T] : IsRun(g, b, F, L)
  <2> HIDE DEF F, loop, Step
  <2>1. QED
    BY <1>1, <1>3, <1>5, RunExists
<1>8. ASSUME NEW i \in 0..L
      PROVE  g[i] = IF i = 0 THEN b ELSE CloseTurn(g[i - 1], i, o)
  <2> HIDE DEF F, loop
  <2>1. CASE i = 0
    BY <1>7, <2>1 DEF IsRun
  <2>2. CASE i # 0
    <3>1. i \in 1..L /\ i \in Nat /\ g[i - 1] \in T
      BY <1>1, <2>2
    <3>2. g[i] = F[<<g[i - 1], i>>]
      BY <1>7, <2>2 DEF IsRun
    <3>3. QED
      BY <1>5, <2>2, <3>1, <3>2
  <2>3. QED
    BY <2>1, <2>2
<1>9. g = [i \in 0..L |-> IF i = 0 THEN b ELSE CloseTurn(g[i - 1], i, o)]
  BY <1>8
<1>10. loop = [i \in 0..L |-> IF i = 0 THEN b ELSE CloseTurn(loop[i - 1], i, o)]
  BY <1>9
<1> HIDE DEF loop, F, Step
<1>11. ASSUME NEW i \in 1..L
       PROVE  loop[i] = CloseTurn(loop[i - 1], i, o)
  BY <1>1, <1>10
<1>12. loop[0] = b /\ DOMAIN loop = 0..L
  BY <1>1, <1>10
<1>13. \A i \in 0..L : loop[i] \in T
  <2> DEFINE G == {i \in 0..L : loop[i] \in T}
  <2>1. 0 \in G
    BY <1>1, <1>3, <1>12
  <2>2. ASSUME NEW i \in 1..L, i - 1 \in G PROVE i \in G
    <3>1. loop[i] = CloseTurn(loop[i - 1], i, o) /\ loop[i - 1] \in T /\ i \in 0..L
      BY <1>1, <1>11, <2>2
    <3>2. i \in Nat \ {0}
      OBVIOUS
    <3>3. CloseTurn(loop[i - 1], i, o) \in T
      BY <1>1, <3>1, <3>2, CloseTurnGood DEF T
    <3>4. QED
      BY <3>1, <3>3
  <2> HIDE DEF G
  <2>3. \A i \in 0..L : i \in G
    BY <1>1, <2>1, <2>2, EveryTurn
  <2>4. QED
    BY <2>3 DEF G
<1>14. loop \in [0..L -> T]
  BY <1>10, <1>13
<1>15. QED
  <2>1. IsClosing(loop, n, r)
    BY <1>2, <1>11, <1>12 DEF IsClosing, L, o, b
  <2>2. loop \in [0..L -> Turns(K)]
    BY <1>14 DEF T, Turns
  <2>3. QED
    BY <1>1, <2>1, <2>2 DEF L, o

LEMMA CloseRoomGood ==
  ASSUME LifecycleAssumption, NEW K, NEW n \in GoodNodes(K), NEW r \in Rooms
  PROVE  CloseRoom(n, r) \in GoodNodes(K) /\ Closes(CloseRoom(n, r), n)
<1> DEFINE o == n.rooms[r]
           L == Len(n.members[o])
           T == [node : GoodNodes(K), thrown : BOOLEAN]
<1>1. CASE o = 0
  BY <1>1, ClosesSelf DEF CloseRoom
<1>2. CASE o # 0
  <2>1. n \in Nodes /\ o \in Joins /\ n.roomId[o] = r /\ r \in K
    BY <1>2 DEF GoodNodes, Nodes, Objects, FiledInv, KnownInv
  <2>2. L \in Nat /\ \E g \in [0..L -> Turns(K)] : IsClosing(g, n, r)
    <3>1. n.rooms[r] # 0
      BY <1>2
    <3>2. QED
      BY <3>1, CloseRoomRun
  <2>13. PICK g \in [0..L -> T] : IsClosing(g, n, r)
    BY <2>2 DEF Turns
  <2>3. /\ g[0] = [node |-> DropRoles(n, r), thrown |-> FALSE]
        /\ \A i \in 1..L : g[i] = CloseTurn(g[i - 1], i, o)
        /\ CloseRoom(n, r) = IF g[L].thrown THEN g[L].node
                             ELSE FinishClose(g[L].node, r, o)
    BY <2>13, Zenon DEF IsClosing
  <2> HIDE DEF L
  <2> DEFINE G == {i \in 0..L : Closes(g[i].node, n) /\ r \notin g[i].node.logicRooms}
  <2> HIDE DEF o
  <2>4. 0 \in G
    <3>1. /\ Closes(DropRoles(n, r), n)
          /\ DropRoles(n, r).logicRooms = n.logicRooms \ {r}
      BY DropRolesGood
    <3>2. g[0].node = DropRoles(n, r)
      BY <2>3
    <3>3. QED
      BY <2>2, <3>1, <3>2
  <2>5. ASSUME NEW i \in 1..L, i - 1 \in G PROVE i \in G
    <3> DEFINE e == g[i - 1]
    <3>1. /\ i \in Nat \ {0} /\ i - 1 \in 0..L /\ i \in 0..L /\ e \in T
          /\ g[i] = CloseTurn(e, i, o)
          /\ Closes(e.node, n) /\ r \notin e.node.logicRooms
      BY <2>2, <2>3, <2>5
    <3> HIDE DEF e, G
    <3>2. CloseTurn(e, i, o) \in T /\ Closes(CloseTurn(e, i, o).node, e.node)
      BY <2>1, <3>1, CloseTurnGood
    <3>3. g[i].node \in Nodes /\ e.node \in Nodes
      BY <3>1, <3>2 DEF GoodNodes
    <3>4. Closes(g[i].node, e.node)
      BY <3>1, <3>2
    <3>5. Closes(g[i].node, n)
      BY <2>1, <3>1, <3>3, <3>4, ClosesTwice
    <3>6. r \notin g[i].node.logicRooms
      BY <3>1, <3>4 DEF Closes, Keeps
    <3>7. QED
      BY <3>1, <3>5, <3>6 DEF G
  <2>6. \A i \in 0..L : i \in G
    <3> HIDE DEF G
    <3>1. QED
      BY <2>2, <2>4, <2>5, EveryTurn
  <2> DEFINE m == g[L].node
  <2>7. /\ g[L] \in T /\ m \in GoodNodes(K) /\ Closes(m, n) /\ r \notin m.logicRooms
    <3>1. L \in 0..L
      BY <2>2
    <3>2. QED
      BY <2>6, <3>1
  <2>8. CloseRoom(n, r) = m \/ CloseRoom(n, r) = FinishClose(m, r, o)
    BY <2>3
  <2> HIDE DEF m
  <2>9. /\ m.roomId = n.roomId /\ m.roomId[o] = r
        /\ m.rooms[r] = o \/ (m.rooms[r] = 0 /\ m.visitors[o] = << >>)
    BY <2>1, <2>7 DEF Closes, Keeps, o
  <2>10. /\ FinishClose(m, r, o) \in GoodNodes(K) /\ Closes(FinishClose(m, r, o), m)
    BY <2>1, <2>7, <2>9, FinishCloseGood
  <2>11. Closes(FinishClose(m, r, o), n)
    BY <2>1, <2>7, <2>10, ClosesTwice DEF GoodNodes
  <2>12. QED
    BY <2>7, <2>8, <2>9, <2>10, <2>11
<1>3. QED
  BY <1>1, <1>2

-----------------------------------------------------------------------------
(* What is sent is heard in order.                                         *)

LEMMA HeardOnceAppend ==
  ASSUME NEW l \in Seq(Notes), HeardOnce(l), NEW e \in Notes,
         \A i \in 1..Len(l) : l[i].room = e.room /\ l[i].n > 0 /\ e.n > 0 => l[i].n < e.n
  PROVE  HeardOnce(Append(l, e))
<1> DEFINE b == Append(l, e)
<1>1. /\ Len(l) \in Nat /\ Len(b) = Len(l) + 1 /\ b[Len(l) + 1] = e
      /\ \A i \in 1..Len(l) : b[i] = l[i]
  OBVIOUS
<1> HIDE DEF b
<1>2. ASSUME NEW i \in 1..Len(b), NEW k \in 1..Len(b), i < k, b[i].room = b[k].room,
             b[i].n > 0, b[k].n > 0
      PROVE  b[i].n < b[k].n
  <2>1. i \in 1..Len(l) /\ b[i] = l[i]
    BY <1>1, <1>2
  <2>2. CASE k \in 1..Len(l)
    BY <1>1, <1>2, <2>1, <2>2 DEF HeardOnce
  <2>3. CASE k = Len(l) + 1
    BY <1>1, <1>2, <2>1, <2>3
  <2>4. QED
    BY <1>1, <2>2, <2>3
<1>3. HeardOnce(b)
  BY <1>2 DEF HeardOnce
<1>4. QED
  BY <1>3 DEF b

\* Nothing or one message is written to a socket.
AddsOne(v, w, e) == v = w \/ v = Append(w, e)

LEMMA SetInboxIs ==
  ASSUME NEW n \in Nodes, NEW v
  PROVE  [n EXCEPT !.inbox = v].inbox = v
BY DEF Nodes

\* UserMgr.send writes a message at most once to a socket.
LEMMA SendAllOnce ==
  ASSUME LifecycleAssumption, NEW n \in Nodes, FiledInv(n), OwnSocks(n), NEW o \in Joins,
         NEW m \in Texts, Distinct(Receivers(n, o, m))
  PROVE  \A s \in Socks : AddsOne(SendAll(n, o, m).inbox[s], n.inbox[s], Heard(o, m))
<1> DEFINE to == Receivers(n, o, m)
           e == Heard(o, m)
<1>1. PICK g \in [0..Len(to) -> Written(n)] :
        /\ g[0] = n /\ SendAll(n, o, m) = g[Len(to)]
        /\ \A i \in 1..Len(to) : g[i] = SendSingle(g[i - 1], o, m, to[i])
  BY SendAllRun, SMTT(30)
<1>2. to \in Seq(Players) /\ Distinct(to)
  BY SendAllRun
<1> HIDE DEF to
<1>3. Len(to) \in Nat /\ \A i \in 1..Len(to) : to[i] \in Players
  BY <1>2
<1> DEFINE Kept(i, s) == g[i].inbox[s] = n.inbox[s]
           Got(i, s) == /\ g[i].inbox[s] = Append(n.inbox[s], e)
                        /\ \E k \in 1..i : Owner[s] = to[k]
           G == {i \in 0..Len(to) : \A s \in Socks : Kept(i, s) \/ Got(i, s)}
<1>4. 0 \in G
  BY <1>1, <1>3
<1>5. ASSUME NEW i \in 1..Len(to), i - 1 \in G PROVE i \in G
  <2> DEFINE k == g[i - 1]
             p == to[i]
             q == IF k.users[p] = 0 THEN NoSock ELSE k.userSock[k.users[p]]
  <2>1. /\ k \in Written(n) /\ g[i] = SendSingle(k, o, m, p) /\ p \in Players
        /\ i \in 0..Len(to) /\ i \in Nat /\ i - 1 \in Nat
    <3>1. i \in 0..Len(to) /\ i \in Nat /\ i - 1 \in Nat /\ i - 1 \in 0..Len(to)
      BY <1>3
    <3>2. k \in Written(n)
      BY <3>1
    <3>3. QED
      BY <1>1, <1>3, <3>1, <3>2
  <2>2. k \in Nodes /\ k.users = n.users /\ k.userSock = n.userSock
    BY <2>1, WrittenIs
  <2>3. \A s \in Socks : Kept(i - 1, s) \/ Got(i - 1, s)
    BY <1>5
  <2>4. \A s \in Socks : g[i].inbox[s] = k.inbox[s] => Kept(i, s) \/ Got(i, s)
    <3>1. 1..(i - 1) \subseteq 1..i
      BY <2>1
    <3> HIDE DEF e
    <3>2. QED
      BY <2>3, <3>1
  <2>5. CASE q = NoSock \/ k.sock[q] # "open"
    <3>1. g[i] = k
      BY <2>1, <2>5 DEF SendSingle
    <3> HIDE DEF Kept, Got
    <3>2. QED
      BY <2>1, <2>4, <3>1
  <2>6. CASE ~(q = NoSock \/ k.sock[q] # "open")
    <3>1. k.users[p] \in Joins /\ k.users[p] # 0 /\ q = k.userSock[k.users[p]]
      BY <2>1, <2>2, <2>6, ZenonT(60) DEF Nodes, Objects
    <3>2. q \in Socks /\ Owner[q] = p
      <4>1. q \in Socks
        <5>1. k.userSock \in [Joins -> Socks \cup {NoSock}]
          BY <2>2 DEF Nodes
        <5> HIDE DEF q
        <5>2. q # NoSock
          BY <2>6
        <5>3. QED
          BY <3>1, <5>1, <5>2
      <4>2. Player(k.users[p]) = p
        BY <2>1, <2>2, <3>1 DEF FiledInv
      <4>3. Owner[q] = Player(k.users[p])
        BY <2>2, <2>6, <3>1 DEF OwnSocks
      <4>4. QED
        BY <4>1, <4>2, <4>3
    <3>3. g[i] = [k EXCEPT !.inbox = [k.inbox EXCEPT ![q] = Append(k.inbox[q], e)]]
      BY <2>1, <2>6 DEF SendSingle
    <3>4. k.inbox \in Boxes
      BY <2>2 DEF Nodes, Boxes
    <3> HIDE DEF k, q, e, p
    <3>5. g[i].inbox = [k.inbox EXCEPT ![q] = Append(k.inbox[q], e)]
      <4> DEFINE v == [k.inbox EXCEPT ![q] = Append(k.inbox[q], e)]
      <4>1. g[i] = [k EXCEPT !.inbox = v]
        BY <3>3
      <4> HIDE DEF v
      <4>2. g[i].inbox = v
        BY <2>2, <4>1, SetInboxIs
      <4>3. QED
        BY <4>2 DEF v
    <3>6. /\ g[i].inbox[q] = Append(k.inbox[q], e)
          /\ \A s \in Socks \ {q} : g[i].inbox[s] = k.inbox[s]
      BY <3>2, <3>4, <3>5 DEF Boxes
    <3>7. Kept(i - 1, q)
      <4>1. \A y \in 1..(i - 1) : to[y] # p
        BY <1>2, <2>1 DEF Distinct, p
      <4>2. ~ Got(i - 1, q)
        BY <3>2, <4>1
      <4>3. QED
        BY <2>3, <3>2, <4>2
    <3>8. Got(i, q)
      <4>1. i \in 1..i /\ Owner[q] = to[i]
        BY <2>1, <3>2 DEF p
      <4>2. k.inbox[q] = n.inbox[q]
        BY <3>7 DEF k
      <4>3. QED
        BY <3>6, <4>1, <4>2
    <3> HIDE DEF Kept, Got
    <3>9. ASSUME NEW s \in Socks PROVE Kept(i, s) \/ Got(i, s)
      BY <2>4, <3>6, <3>8
    <3>10. QED
      BY <2>1, <3>9
  <2>7. QED
    BY <2>5, <2>6
<1> HIDE DEF G
<1>6. \A i \in 0..Len(to) : i \in G
  BY <1>3, <1>4, <1>5, EveryTurn
<1>7. Len(to) \in G
  BY <1>3, <1>6
<1>8. QED
  BY <1>1, <1>7 DEF G, AddsOne

\* A message is written to sockets, at most once to each, or it is put behind those that
\* wait, or it is dropped.
Takes(k, n, o, m) ==
  \/ k.pending = n.pending /\ k.inbox = n.inbox
  \/ /\ k.pending = n.pending /\ n.started[o]
     /\ \A s \in Socks : AddsOne(k.inbox[s], n.inbox[s], Heard(o, m))
  \/ /\ k.inbox = n.inbox /\ ~n.started[o]
     /\ k.pending[o] = Append(n.pending[o], m)
     /\ \A q \in Joins \ {o} : k.pending[q] = n.pending[q]

LEMMA TakenHeard ==
  ASSUME NEW n \in Nodes, HeardInv(n), NEW k \in Nodes, NEW o \in Joins, NEW m \in Texts,
         m.live \/ Distinct(m.to), Takes(k, n, o, m),
         k.userSock = n.userSock, k.members = n.members, k.started = n.started,
         n.sent[o] <= k.sent[o], m.n <= k.sent[o], m.n > 0 => n.sent[o] < m.n,
         \A q \in Joins \ {o} : k.sent[q] = n.sent[q]
  PROVE  HeardInv(k)
<1>1. OwnSocks(n) /\ SeatsOnce(n) /\ WaitInv(n) /\ BoxInv(n) /\ OrderInv(n)
  BY DEF HeardInv
<1>2. OwnSocks(k) /\ SeatsOnce(k)
  BY <1>1 DEF OwnSocks, SeatsOnce
<1>3. /\ m.n \in Nat /\ \A q \in Joins : n.sent[q] \in Nat /\ k.sent[q] \in Nat
      /\ \A q \in Joins : n.pending[q] \in Seq(Texts)
      /\ \A s \in Socks : n.inbox[s] \in Seq(Notes)
  <2>1. m.n \in Nat
    BY DEF Texts
  <2>2. /\ n.sent \in [Joins -> 0..Len(Says)] /\ k.sent \in [Joins -> 0..Len(Says)]
        /\ n.pending \in [Joins -> Seq(Texts)] /\ n.inbox \in [Socks -> Seq(Notes)]
    BY DEF Nodes
  <2>3. QED
    BY <2>1, <2>2
<1>4. \A q \in Joins : n.sent[q] <= k.sent[q]
  BY <1>3
<1>5. \A q \in Joins :
        \/ k.pending[q] = n.pending[q]
        \/ q = o /\ ~n.started[o] /\ k.pending[q] = Append(n.pending[o], m)
  BY DEF Takes
<1>6. \A q \in Joins : \A i \in 1..Len(n.pending[q]) : n.pending[q][i].n \in Nat
  <2> SUFFICES ASSUME NEW q \in Joins, NEW i \in 1..Len(n.pending[q])
               PROVE  n.pending[q][i].n \in Nat
    OBVIOUS
  <2>1. n.pending[q][i] \in Texts
    BY <1>3
  <2>2. QED
    BY <2>1 DEF Texts
<1>7. ASSUME NEW q \in Joins
      PROVE  /\ InTurns(k.pending[q]) /\ (k.started[q] => k.pending[q] = << >>)
             /\ \A i \in 1..Len(k.pending[q]) :
                  /\ k.pending[q][i].n <= k.sent[q]
                  /\ k.pending[q][i].live \/ Distinct(k.pending[q][i].to)
  <2>1. /\ InTurns(n.pending[q]) /\ (n.started[q] => n.pending[q] = << >>)
        /\ \A i \in 1..Len(n.pending[q]) :
             /\ n.pending[q][i].n <= n.sent[q]
             /\ n.pending[q][i].live \/ Distinct(n.pending[q][i].to)
    BY <1>1 DEF WaitInv
  <2>2. CASE k.pending[q] = n.pending[q]
    BY <1>3, <1>4, <1>6, <2>1, <2>2
  <2>3. CASE q = o /\ ~n.started[o] /\ k.pending[q] = Append(n.pending[o], m)
    <3> DEFINE l == n.pending[o]
               b == k.pending[o]
    <3>1. /\ Len(l) \in Nat /\ Len(b) = Len(l) + 1 /\ b[Len(l) + 1] = m
          /\ \A i \in 1..Len(l) : b[i] = l[i]
      BY <1>3, <2>3
    <3>2. \A i \in 1..Len(l) : l[i].n <= n.sent[o] /\ l[i].n \in Nat
      BY <1>6, <2>1, <2>3
    <3>3. InTurns(l)
      BY <2>1, <2>3
    <3> HIDE DEF l, b
    <3>4. InTurns(b)
      <4>1. ASSUME NEW i \in 1..Len(b), NEW h \in 1..Len(b), i < h, b[i].n > 0, b[h].n > 0
            PROVE  b[i].n < b[h].n
        <5>1. i \in 1..Len(l) /\ b[i] = l[i]
          BY <3>1, <4>1
        <5>2. CASE h \in 1..Len(l)
          BY <3>1, <3>3, <4>1, <5>1, <5>2 DEF InTurns
        <5>3. CASE h = Len(l) + 1
          BY <1>3, <3>1, <3>2, <4>1, <5>1, <5>3
        <5>4. QED
          BY <3>1, <5>2, <5>3
      <4>2. QED
        BY <4>1 DEF InTurns
    <3>5. \A i \in 1..Len(b) : b[i].n <= k.sent[o]
      BY <1>3, <3>1, <3>2
    <3>6. \A i \in 1..Len(b) : b[i].live \/ Distinct(b[i].to)
      <4>1. \A i \in 1..Len(l) : l[i].live \/ Distinct(l[i].to)
        BY <2>1, <2>3 DEF l
      <4>2. QED
        BY <3>1, <4>1
    <3>7. QED
      BY <2>3, <3>4, <3>5, <3>6 DEF b
  <2>4. QED
    BY <1>5, <2>2, <2>3
<1>8. WaitInv(k)
  BY <1>7 DEF WaitInv
<1>9. ASSUME NEW s \in Socks
      PROVE  \/ k.inbox[s] = n.inbox[s]
             \/ n.started[o] /\ k.inbox[s] = Append(n.inbox[s], Heard(o, m))
  BY DEF Takes, AddsOne
<1>10. Heard(o, m) \in Notes /\ Heard(o, m).room = o /\ Heard(o, m).n = m.n
  BY DEF Heard, Notes, Texts
<1>11. ASSUME NEW s \in Socks, NEW i \in 1..Len(k.inbox[s])
       PROVE  \/ i \in 1..Len(n.inbox[s]) /\ k.inbox[s][i] = n.inbox[s][i]
              \/ n.started[o] /\ k.inbox[s][i] = Heard(o, m)
  <2> DEFINE l == n.inbox[s]
  <2>1. l \in Seq(Notes)
    BY <1>3
  <2>2. CASE k.inbox[s] = l
    BY <2>2
  <2>3. CASE n.started[o] /\ k.inbox[s] = Append(l, Heard(o, m))
    <3> HIDE DEF l
    <3>1. \/ i \in 1..Len(l) /\ Append(l, Heard(o, m))[i] = l[i]
          \/ Append(l, Heard(o, m))[i] = Heard(o, m)
      BY <2>1, <2>3
    <3>2. QED
      BY <2>3, <3>1 DEF l
  <2>4. QED
    BY <1>9, <2>2, <2>3
<1>12. ASSUME NEW s \in Socks, NEW i \in 1..Len(n.inbox[s])
       PROVE  /\ n.inbox[s][i].room \in Joins /\ n.inbox[s][i].n \in Nat
              /\ n.inbox[s][i].n <= n.sent[n.inbox[s][i].room]
              /\ \A h \in 1..Len(n.pending[n.inbox[s][i].room]) :
                   n.inbox[s][i].n > 0 /\ n.pending[n.inbox[s][i].room][h].n > 0
                     => n.inbox[s][i].n < n.pending[n.inbox[s][i].room][h].n
  <2>1. n.inbox[s][i] \in Notes
    BY <1>3
  <2>2. n.inbox[s][i].room \in Joins /\ n.inbox[s][i].n \in Nat
    BY <2>1 DEF Notes
  <2>3. QED
    BY <1>1, <2>2 DEF BoxInv
<1>13. ASSUME NEW s \in Socks, NEW i \in 1..Len(k.inbox[s])
       PROVE  LET a == k.inbox[s][i]
              IN /\ a.n <= k.sent[a.room]
                 /\ \A h \in 1..Len(k.pending[a.room]) :
                      a.n > 0 /\ k.pending[a.room][h].n > 0 => a.n < k.pending[a.room][h].n
  <2> DEFINE a == k.inbox[s][i]
  <2>1. CASE i \in 1..Len(n.inbox[s]) /\ a = n.inbox[s][i]
    <3>1. /\ a.room \in Joins /\ a.n \in Nat /\ a.n <= n.sent[a.room]
          /\ \A h \in 1..Len(n.pending[a.room]) :
               a.n > 0 /\ n.pending[a.room][h].n > 0 => a.n < n.pending[a.room][h].n
      BY <1>12, <2>1
    <3> HIDE DEF a
    <3>2. a.n <= k.sent[a.room]
      BY <1>3, <1>4, <3>1
    <3>3. ASSUME NEW h \in 1..Len(k.pending[a.room]), a.n > 0, k.pending[a.room][h].n > 0
          PROVE  a.n < k.pending[a.room][h].n
      <4>1. CASE k.pending[a.room] = n.pending[a.room]
        BY <3>1, <3>3, <4>1
      <4>2. CASE a.room = o /\ k.pending[o] = Append(n.pending[o], m)
        <5>1. n.pending[o] \in Seq(Texts)
          BY <1>3
        <5>2. \/ h \in 1..Len(n.pending[o]) /\ k.pending[o][h] = n.pending[o][h]
              \/ k.pending[o][h] = m
          BY <3>3, <4>2, <5>1
        <5>3. CASE k.pending[o][h] = m
          BY <1>3, <3>1, <3>3, <4>2, <5>3
        <5>4. CASE h \in 1..Len(n.pending[o]) /\ k.pending[o][h] = n.pending[o][h]
          BY <3>1, <3>3, <4>2, <5>4
        <5>5. QED
          BY <5>2, <5>3, <5>4
      <4>3. QED
        BY <1>5, <3>1, <4>1, <4>2
    <3>4. QED
      BY <3>2, <3>3 DEF a
  <2>2. CASE n.started[o] /\ a = Heard(o, m)
    <3>1. k.pending[o] = << >>
      BY <1>8, <2>2 DEF WaitInv
    <3>2. a.room = o /\ a.n = m.n
      BY <1>10, <2>2
    <3> HIDE DEF a
    <3>3. a.n <= k.sent[a.room] /\ Len(k.pending[a.room]) = 0
      BY <3>1, <3>2
    <3>4. QED
      BY <3>3 DEF a
  <2>3. QED
    BY <1>11, <2>1, <2>2
<1>14. BoxInv(k)
  BY <1>13 DEF BoxInv
<1>15. ASSUME NEW s \in Socks PROVE HeardOnce(k.inbox[s])
  <2>1. HeardOnce(n.inbox[s]) /\ n.inbox[s] \in Seq(Notes)
    BY <1>1, <1>3 DEF OrderInv
  <2>2. CASE k.inbox[s] = n.inbox[s]
    BY <2>1, <2>2
  <2>3. CASE k.inbox[s] = Append(n.inbox[s], Heard(o, m))
    <3> DEFINE e == Heard(o, m)
    <3>1. ASSUME NEW i \in 1..Len(n.inbox[s]), n.inbox[s][i].room = e.room,
                 n.inbox[s][i].n > 0, e.n > 0
          PROVE  n.inbox[s][i].n < e.n
      <4> DEFINE a == n.inbox[s][i]
      <4>1. a.n \in Nat /\ a.n <= n.sent[a.room] /\ a.room = o /\ e.n = m.n
        BY <1>10, <1>12, <3>1
      <4> HIDE DEF a, e
      <4>2. a.n < e.n
        BY <1>3, <3>1, <4>1
      <4>3. QED
        BY <4>2 DEF a
    <3>2. e \in Notes
      BY <1>10
    <3> HIDE DEF e
    <3>3. HeardOnce(Append(n.inbox[s], e))
      BY <2>1, <3>1, <3>2, HeardOnceAppend
    <3>4. QED
      BY <2>3, <3>3 DEF e
  <2>4. QED
    BY <1>9, <2>2, <2>3
<1>16. QED
  BY <1>2, <1>8, <1>14, <1>15 DEF HeardInv, OrderInv

LEMMA RoomSendTakes ==
  ASSUME LifecycleAssumption, NEW K, NEW n \in GoodNodes(K), HeardInv(n), NEW o \in Joins,
         NEW m \in Texts, m.live \/ Distinct(m.to)
  PROVE  LET k == RoomSend(n, o, m)
         IN Takes(k, n, o, m) /\ k.userSock = n.userSock
<1>1. /\ n \in Nodes /\ FiledInv(n) /\ OwnSocks(n) /\ SeatsOnce(n)
      /\ n.pending \in [Joins -> Seq(Texts)]
  BY DEF GoodNodes, Nodes, HeardInv
<1>2. CASE ~n.isLogic[o]
  BY <1>2 DEF RoomSend, Takes
<1>3. CASE n.isLogic[o] /\ n.started[o]
  <2>1. RoomSend(n, o, m) = SendAll(n, o, m)
    BY <1>3 DEF RoomSend
  <2>2. SendAll(n, o, m) \in Written(n)
    BY <1>1, SendAllWrites, WrittenIs
  <2>3. Distinct(Receivers(n, o, m))
    BY <1>1 DEF Receivers, SeatsOnce
  <2>4. \A s \in Socks : AddsOne(SendAll(n, o, m).inbox[s], n.inbox[s], Heard(o, m))
    BY <1>1, <2>3, SendAllOnce
  <2>5. /\ SendAll(n, o, m).pending = n.pending /\ SendAll(n, o, m).userSock = n.userSock
    BY <1>1, <2>2, WrittenIs
  <2>6. QED
    BY <1>3, <2>1, <2>4, <2>5 DEF Takes
<1>4. CASE n.isLogic[o] /\ ~n.started[o]
  <2> DEFINE v == [n.pending EXCEPT ![o] = Append(n.pending[o], m)]
             l == [n EXCEPT !.pending = v]
  <2>1. RoomSend(n, o, m) = l
    BY <1>4 DEF RoomSend
  <2>2. /\ v[o] = Append(n.pending[o], m)
        /\ \A q \in Joins \ {o} : v[q] = n.pending[q]
    BY <1>1
  <2> HIDE DEF v
  <2>3. l.pending = v /\ l.inbox = n.inbox /\ l.userSock = n.userSock
    BY <1>1 DEF Nodes
  <2> HIDE DEF l
  <2>4. QED
    BY <1>4, <2>1, <2>2, <2>3 DEF Takes
<1>5. QED
  BY <1>2, <1>3, <1>4

\* What a socket got fits when i of the messages that wait for room o were sent on.
NoteFits(a, n, o, i) ==
  /\ a.n <= n.sent[a.room]
  /\ \A h \in 1..Len(n.pending[a.room]) :
       (a.room = o => i < h) /\ a.n > 0 /\ n.pending[a.room][h].n > 0
         => a.n < n.pending[a.room][h].n

Told(k, n, o, i) == \A s \in Socks :
  HeardOnce(k.inbox[s]) /\ \A j \in 1..Len(k.inbox[s]) : NoteFits(k.inbox[s][j], n, o, i)

LEMMA ToldNext ==
  ASSUME NEW n \in Nodes, NEW k \in Nodes, NEW l, NEW o \in Joins,
         NEW i \in 1..Len(n.pending[o]), Told(k, n, o, i - 1),
         \A s \in Socks : AddsOne(l.inbox[s], k.inbox[s], Heard(o, n.pending[o][i])),
         InTurns(n.pending[o]), n.pending[o][i].n <= n.sent[o]
  PROVE  Told(l, n, o, i)
<1> DEFINE w == n.pending[o]
           e == Heard(o, w[i])
<1>1. /\ w \in Seq(Texts) /\ Len(w) \in Nat /\ i \in Nat
      /\ \A q \in Joins : n.pending[q] \in Seq(Texts)
  <2>1. n.pending \in [Joins -> Seq(Texts)]
    BY DEF Nodes
  <2>2. QED
    BY <2>1
<1>2. w[i] \in Texts
  BY <1>1
<1>3. e \in Notes /\ e.room = o /\ e.n = w[i].n /\ e.n \in Nat
  BY <1>2 DEF Heard, Notes, Texts
<1>4. \A s \in Socks : k.inbox[s] \in Seq(Notes)
  BY DEF Nodes
<1>5. ASSUME NEW a, NoteFits(a, n, o, i - 1) PROVE NoteFits(a, n, o, i)
  <2>1. \A h \in 1..Len(n.pending[a.room]) : i < h => i - 1 < h
    BY <1>1
  <2>2. QED
    BY <1>5, <2>1 DEF NoteFits
<1>6. NoteFits(e, n, o, i)
  <2>1. e.n <= n.sent[e.room]
    BY <1>3
  <2>2. \A h \in 1..Len(w) : i < h /\ e.n > 0 /\ w[h].n > 0 => e.n < w[h].n
    BY <1>3 DEF InTurns
  <2>3. QED
    BY <1>3, <2>1, <2>2 DEF NoteFits
<1>7. ASSUME NEW s \in Socks
      PROVE  /\ HeardOnce(l.inbox[s])
             /\ \A j \in 1..Len(l.inbox[s]) : NoteFits(l.inbox[s][j], n, o, i)
  <2> DEFINE b == k.inbox[s]
  <2>1. /\ b \in Seq(Notes) /\ HeardOnce(b) /\ Len(b) \in Nat
        /\ \A j \in 1..Len(b) : NoteFits(b[j], n, o, i - 1)
    BY <1>4 DEF Told
  <2>2. l.inbox[s] = b \/ l.inbox[s] = Append(b, e)
    BY DEF AddsOne
  <2> HIDE DEF b, e
  <2>3. CASE l.inbox[s] = b
    BY <1>5, <2>1, <2>3
  <2>4. CASE l.inbox[s] = Append(b, e)
    <3>1. ASSUME NEW j \in 1..Len(b), b[j].room = e.room, b[j].n > 0, e.n > 0
          PROVE  b[j].n < e.n
      <4>1. b[j].room = o /\ NoteFits(b[j], n, o, i - 1) /\ e.n = w[i].n
        BY <1>3, <2>1, <3>1
      <4>2. i \in 1..Len(w) /\ i - 1 < i
        BY <1>1
      <4>3. QED
        BY <3>1, <4>1, <4>2 DEF NoteFits
    <3>2. HeardOnce(Append(b, e))
      BY <1>3, <2>1, <3>1, HeardOnceAppend
    <3>3. ASSUME NEW j \in 1..Len(Append(b, e)) PROVE NoteFits(Append(b, e)[j], n, o, i)
      <4>1. \/ j \in 1..Len(b) /\ Append(b, e)[j] = b[j]
            \/ Append(b, e)[j] = e
        BY <2>1, <3>3
      <4>2. QED
        BY <1>5, <1>6, <2>1, <4>1
    <3>4. QED
      BY <2>4, <3>2, <3>3
  <2>5. QED
    BY <2>2, <2>3, <2>4
<1>8. QED
  BY <1>7 DEF Told

\* What waits for room o is written out, in turn, and nothing waits for it any more.
LEMMA SendPendingHeard ==
  ASSUME LifecycleAssumption, NEW K, NEW n \in GoodNodes(K), NEW c \in Nodes, HeardInv(c),
         NEW o \in Joins, n.userSock = c.userSock, n.members = c.members, n.sent = c.sent,
         n.pending = c.pending, n.inbox = c.inbox,
         \A q \in Joins \ {o} : n.started[q] = c.started[q]
  PROVE  HeardInv(SendPending(n, o))
<1> DEFINE w == n.pending[o]
           k == PendingStays(n, o)
           l == SendPending(n, o)
<1>1. /\ n \in Nodes /\ FiledInv(n) /\ OwnSocks(n) /\ SeatsOnce(n)
      /\ BoxInv(n) /\ OrderInv(n)
      /\ n.pending \in [Joins -> Seq(Texts)] /\ n.inbox \in [Socks -> Seq(Notes)]
  <2>1. OwnSocks(n) /\ SeatsOnce(n)
    BY DEF HeardInv, OwnSocks, SeatsOnce
  <2>2. BoxInv(n) /\ OrderInv(n)
    BY DEF HeardInv, BoxInv, OrderInv
  <2>3. n \in Nodes /\ FiledInv(n)
    BY DEF GoodNodes
  <2>4. n.pending \in [Joins -> Seq(Texts)] /\ n.inbox \in [Socks -> Seq(Notes)]
    BY <2>3 DEF Nodes
  <2>5. QED
    BY <2>1, <2>2, <2>3, <2>4
<1>2. /\ w \in Seq(Texts) /\ InTurns(w)
      /\ \A i \in 1..Len(w) : w[i].n <= n.sent[o] /\ (w[i].live \/ Distinct(w[i].to))
  BY <1>1 DEF HeardInv, WaitInv
<1>3. PICK g \in [0..Len(w) -> Written(n)] :
        /\ g[0] = n /\ k = g[Len(w)]
        /\ \A i \in 1..Len(w) : g[i] = SendAll(g[i - 1], o, w[i])
  BY <1>1, SendPendingRun
<1>4. Len(w) \in Nat
  BY <1>2
<1> DEFINE G == {i \in 0..Len(w) : Told(g[i], n, o, i)}
<1>5. 0 \in G
  <2>1. ASSUME NEW s \in Socks, NEW j \in 1..Len(n.inbox[s])
        PROVE  NoteFits(n.inbox[s][j], n, o, 0)
    BY <1>1 DEF BoxInv, NoteFits
  <2>2. Told(n, n, o, 0)
    BY <1>1, <2>1 DEF Told, OrderInv
  <2>3. 0 \in 0..Len(w)
    BY <1>4
  <2>4. QED
    BY <1>3, <2>2, <2>3
<1>6. ASSUME NEW i \in 1..Len(w), i - 1 \in G PROVE i \in G
  <2> DEFINE a == g[i - 1]
  <2>1. i \in 0..Len(w) /\ i - 1 \in 0..Len(w)
    BY <1>4
  <2>2. a \in Written(n) /\ g[i] = SendAll(a, o, w[i]) /\ Told(a, n, o, i - 1)
    BY <1>3, <1>6, <2>1
  <2>3. w[i] \in Texts
    BY <1>2
  <2> HIDE DEF a, w
  <2>4. /\ a \in Nodes /\ SameRooms(a, n) /\ a.users = n.users /\ a.userSock = n.userSock
    BY <1>1, <2>2, WrittenIs
  <2>5. FiledInv(a) /\ OwnSocks(a) /\ SeatsOnce(a)
    BY <1>1, <2>4 DEF FiledInv, OwnSocks, SeatsOnce, SameRooms
  <2>6. Distinct(Receivers(a, o, w[i]))
    BY <1>2, <2>5 DEF Receivers, SeatsOnce
  <2>7. \A s \in Socks : AddsOne(SendAll(a, o, w[i]).inbox[s], a.inbox[s], Heard(o, w[i]))
    BY <2>3, <2>4, <2>5, <2>6, SendAllOnce
  <2>8. Told(SendAll(a, o, w[i]), n, o, i)
    BY <1>1, <1>2, <2>2, <2>4, <2>7, ToldNext DEF w
  <2>9. QED
    BY <2>1, <2>2, <2>8
<1>7. Told(k, n, o, Len(w)) /\ k \in Written(n)
  <2> HIDE DEF G
  <2>1. \A i \in 0..Len(w) : i \in G
    BY <1>4, <1>5, <1>6, EveryTurn
  <2>2. Len(w) \in 0..Len(w)
    BY <1>4
  <2>3. Told(g[Len(w)], n, o, Len(w))
    BY <2>1, <2>2 DEF G
  <2>4. QED
    BY <1>3, <2>2, <2>3
<1>8. /\ k \in Nodes /\ SameRooms(k, n) /\ k.userSock = n.userSock /\ k.sent = n.sent
      /\ k.pending = n.pending
  BY <1>1, <1>7, WrittenIs
<1> DEFINE v == [n.pending EXCEPT ![o] = << >>]
<1>9. v[o] = << >> /\ \A q \in Joins \ {o} : v[q] = n.pending[q]
  BY <1>1
<1>10. l = [k EXCEPT !.pending = v]
  BY <1>8 DEF SendPending
<1> HIDE DEF k, v, w
<1>11. /\ l.pending = v /\ l.inbox = k.inbox /\ l.userSock = n.userSock /\ l.sent = n.sent
       /\ l.members = n.members /\ l.started = n.started
  BY <1>8, <1>10 DEF Nodes, SameRooms
<1> HIDE DEF l
<1>12. OwnSocks(l) /\ SeatsOnce(l)
  BY <1>1, <1>11 DEF OwnSocks, SeatsOnce
<1>13. WaitInv(l)
  <2>1. ASSUME NEW q \in Joins \ {o}
        PROVE  /\ InTurns(l.pending[q]) /\ (l.started[q] => l.pending[q] = << >>)
               /\ \A i \in 1..Len(l.pending[q]) :
                    /\ l.pending[q][i].n <= l.sent[q]
                    /\ l.pending[q][i].live \/ Distinct(l.pending[q][i].to)
    <3>1. l.pending[q] = c.pending[q] /\ l.started[q] = c.started[q] /\ l.sent[q] = c.sent[q]
      BY <1>9, <1>11
    <3>2. WaitInv(c)
      BY DEF HeardInv
    <3>3. QED
      BY <3>1, <3>2 DEF WaitInv
  <2>2. l.pending[o] = << >> /\ Len(<< >>) = 0 /\ InTurns(<< >>)
    BY <1>9, <1>11 DEF InTurns
  <2>3. QED
    BY <2>1, <2>2 DEF WaitInv
<1>14. ASSUME NEW s \in Socks, NEW i \in 1..Len(l.inbox[s])
       PROVE  LET a == l.inbox[s][i]
              IN /\ a.n <= l.sent[a.room]
                 /\ \A h \in 1..Len(l.pending[a.room]) :
                      a.n > 0 /\ l.pending[a.room][h].n > 0 => a.n < l.pending[a.room][h].n
  <2> DEFINE a == l.inbox[s][i]
  <2>1. NoteFits(a, n, o, Len(w))
    BY <1>7, <1>11 DEF Told
  <2>2. a.room \in Joins
    <3>1. l.inbox[s] \in Seq(Notes)
      BY <1>8, <1>11 DEF Nodes
    <3>2. a \in Notes
      BY <3>1
    <3> HIDE DEF a
    <3>3. QED
      BY <3>2 DEF Notes
  <2> HIDE DEF a
  <2>3. a.n <= l.sent[a.room]
    BY <1>11, <2>1 DEF NoteFits
  <2>4. CASE a.room = o
    <3>1. Len(l.pending[a.room]) = 0
      BY <1>9, <1>11, <2>4
    <3>2. QED
      BY <2>3, <3>1 DEF a
  <2>5. CASE a.room # o
    <3>1. l.pending[a.room] = n.pending[a.room]
      BY <1>9, <1>11, <2>2, <2>5
    <3>2. \A h \in 1..Len(l.pending[a.room]) :
            a.n > 0 /\ l.pending[a.room][h].n > 0 => a.n < l.pending[a.room][h].n
      BY <2>1, <2>5, <3>1 DEF NoteFits
    <3>3. QED
      BY <2>3, <3>2 DEF a
  <2>6. QED
    BY <2>4, <2>5
<1>15. BoxInv(l)
  BY <1>14 DEF BoxInv
<1>16. OrderInv(l)
  BY <1>7, <1>11 DEF Told, OrderInv
<1>17. QED
  BY <1>12, <1>13, <1>15, <1>16 DEF HeardInv, l

-----------------------------------------------------------------------------
(* Entering.                                                               *)

\* UpdateSocket, one field at a time.
LEMMA UpdateSocketIs ==
  ASSUME NEW n \in Nodes, NEW x \in Joins, NEW s \in Socks
  PROVE  LET k == UpdateSocket(n, x, s)
         IN /\ k \in Nodes /\ SameRooms(k, n) /\ k.users = n.users
            /\ k.userRoom = n.userRoom /\ k.inbox = n.inbox /\ k.pending = n.pending
            /\ k.sent = n.sent /\ k.sock = n.sock
            /\ k.userSock[x] = s
            /\ \A y \in Joins \ {x} : k.userSock[y] = n.userSock[y]
            /\ k.listeners[s] = Append(n.listeners[s], x)
            /\ \A q \in Socks \ {s} : k.listeners[q] = n.listeners[q]
<1> DEFINE v == [n.userSock EXCEPT ![x] = s]
           w == [n.timer EXCEPT ![x] = TRUE]
           t == [n.talked EXCEPT ![x] = n.talked[x] \/ n.sock[s] = "open"]
           h == [n.listeners EXCEPT ![s] = Append(n.listeners[s], x)]
           a == [n EXCEPT !.userSock = v]
           b == [a EXCEPT !.timer = w]
           c == [b EXCEPT !.listeners = h]
           d == [c EXCEPT !.talked = t]
<1>1. v \in [Joins -> Socks \cup {NoSock}]
  BY DEF Nodes
<1>2. w \in [Joins -> BOOLEAN]
  BY DEF Nodes
<1>3. t \in [Joins -> BOOLEAN]
  <2>1. n.talked \in [Joins -> BOOLEAN]
    BY DEF Nodes
  <2>2. (n.talked[x] \/ n.sock[s] = "open") \in BOOLEAN
    OBVIOUS
  <2>3. QED
    BY <2>1, <2>2
<1>4. h \in [Socks -> Seq(Joins)]
  BY DEF Nodes
<1>5. UpdateSocket(n, x, s) = d
  BY DEF UpdateSocket, Nodes
<1> HIDE DEF v, w, t, h
<1>6. /\ a \in Nodes /\ SameRooms(a, n) /\ a.users = n.users /\ a.userRoom = n.userRoom
      /\ a.inbox = n.inbox /\ a.pending = n.pending /\ a.sent = n.sent
      /\ a.sock = n.sock /\ a.userSock = v /\ a.listeners = n.listeners
  BY <1>1 DEF Nodes, SameRooms
<1> HIDE DEF a
<1>7. /\ b \in Nodes /\ SameRooms(b, a) /\ b.users = a.users /\ b.userRoom = a.userRoom
      /\ b.inbox = a.inbox /\ b.pending = a.pending /\ b.sent = a.sent
      /\ b.sock = a.sock /\ b.userSock = a.userSock /\ b.listeners = a.listeners
  BY <1>2, <1>6 DEF Nodes, SameRooms
<1> HIDE DEF b
<1>8. /\ c \in Nodes /\ SameRooms(c, b) /\ c.users = b.users /\ c.userRoom = b.userRoom
      /\ c.inbox = b.inbox /\ c.pending = b.pending /\ c.sent = b.sent
      /\ c.sock = b.sock /\ c.userSock = b.userSock /\ c.listeners = h
  BY <1>4, <1>7 DEF Nodes, SameRooms
<1> HIDE DEF c
<1>9. /\ d \in Nodes /\ SameRooms(d, c) /\ d.users = c.users /\ d.userRoom = c.userRoom
      /\ d.inbox = c.inbox /\ d.pending = c.pending /\ d.sent = c.sent
      /\ d.sock = c.sock /\ d.userSock = c.userSock /\ d.listeners = c.listeners
  BY <1>3, <1>8 DEF Nodes, SameRooms
<1> HIDE DEF d
<1>10. SameRooms(d, n)
  BY <1>6, <1>7, <1>8, <1>9 DEF SameRooms
<1>11. /\ v[x] = s /\ \A y \in Joins \ {x} : v[y] = n.userSock[y]
       /\ h[s] = Append(n.listeners[s], x)
       /\ \A q \in Socks \ {s} : h[q] = n.listeners[q]
  BY DEF v, h, Nodes
<1>12. QED
  BY <1>5, <1>6, <1>7, <1>8, <1>9, <1>10, <1>11

LEMMA WithUserGood ==
  ASSUME LifecycleAssumption, NEW K, NEW n \in GoodNodes(K), NEW j \in Joins
  PROVE  LET k == WithUser(n, j)
         IN /\ k \in GoodNodes(K) /\ SameRooms(k, n)
            /\ k.users[Player(j)] \in Joins
<1> DEFINE p == Player(j)
           x == n.users[p]
           s == JoinSock[j]
<1>1. n \in Nodes /\ p \in Players /\ s \in Socks /\ x \in Objects
  BY PlayerOf DEF GoodNodes, Nodes
<1>2. CASE x = 0
  <2> DEFINE u == UpdateSocket(n, j, s)
             k == [u EXCEPT !.users = [u.users EXCEPT ![p] = j]]
  <2>1. u \in Nodes /\ SameRooms(u, n) /\ u.users = n.users
    BY <1>1, UpdateSocketIs
  <2>2. WithUser(n, j) = k
    BY <1>2 DEF WithUser, NewUser
  <2> HIDE DEF u, p
  <2>3. k \in Nodes /\ SameRooms(k, u) /\ k.users = [u.users EXCEPT ![p] = j]
    <3>1. j \in Objects
      BY DEF Objects
    <3>2. QED
      BY <1>1, <2>1, <3>1, SetUsersIs, Zenon
  <2> HIDE DEF k
  <2>4. SameRooms(k, n)
    BY <2>1, <2>3 DEF SameRooms
  <2>5. u.users \in [Players -> Objects]
    BY <2>1 DEF Nodes
  <2>6. k.users[p] = j /\ \A q \in Players \ {p} : k.users[q] = n.users[q]
    BY <1>1, <2>1, <2>3, <2>5
  <2>7. OwnUsers(k, n)
    <3>1. Player(j) = p
      BY DEF p
    <3>2. QED
      BY <2>6, <3>1 DEF OwnUsers
  <2>8. k \in GoodNodes(K)
    BY <2>3, <2>4, <2>7, SameRoomsGood
  <2>9. QED
    BY <2>2, <2>4, <2>6, <2>8 DEF p
<1>3. CASE x # 0 /\ n.userSock[x] = NoSock
  <2> DEFINE u == UpdateSocket(n, x, s)
  <2>1. x \in Joins
    BY <1>1, <1>3 DEF Objects
  <2>2. u \in Nodes /\ SameRooms(u, n) /\ u.users = n.users
    BY <1>1, <2>1, UpdateSocketIs, SMTT(30)
  <2>3. WithUser(n, j) = u
    BY <1>3 DEF WithUser
  <2> HIDE DEF u
  <2>4. u \in GoodNodes(K)
    BY <2>2, SameRoomsGood DEF OwnUsers
  <2>5. QED
    BY <2>1, <2>2, <2>3, <2>4
<1>4. CASE x # 0 /\ n.userSock[x] # NoSock
  BY <1>1, <1>4 DEF WithUser, SameRooms, Objects
<1>5. QED
  BY <1>2, <1>3, <1>4

\* A player's User object writes to a socket of that player.
LEMMA WithUserHeard ==
  ASSUME LifecycleAssumption, NEW K, NEW n \in GoodNodes(K), HeardInv(n), NEW j \in Joins
  PROVE  HeardInv(WithUser(n, j))
<1> DEFINE p == Player(j)
           x == n.users[p]
           s == JoinSock[j]
<1>1. n \in Nodes /\ p \in Players /\ s \in Socks /\ x \in Objects /\ FiledInv(n)
  BY PlayerOf DEF GoodNodes, Nodes
<1>2. Owner[s] = p
  BY DEF Player
<1>3. ASSUME NEW y \in Joins, Player(y) = p, NEW u \in Nodes, SameRooms(u, n),
             u.inbox = n.inbox, u.pending = n.pending, u.sent = n.sent, u.userSock[y] = s,
             \A z \in Joins \ {y} : u.userSock[z] = n.userSock[z]
      PROVE  HeardInv(u)
  <2> HIDE DEF s, p
  <2>1. OwnSocks(n) /\ SeatsOnce(n) /\ WaitInv(n) /\ BoxInv(n) /\ OrderInv(n)
    BY DEF HeardInv
  <2>2. OwnSocks(u)
    BY <1>2, <1>3, <2>1 DEF OwnSocks
  <2>3. SeatsOnce(u) /\ WaitInv(u)
    BY <1>3, <2>1 DEF SeatsOnce, WaitInv, SameRooms
  <2>4. BoxInv(u) /\ OrderInv(u)
    BY <1>3, <2>1 DEF BoxInv, OrderInv
  <2>5. QED
    BY <2>2, <2>3, <2>4 DEF HeardInv
<1>4. CASE x = 0
  <2> DEFINE u == UpdateSocket(n, j, s)
             k == [u EXCEPT !.users = [u.users EXCEPT ![p] = j]]
  <2>1. /\ u \in Nodes /\ SameRooms(u, n) /\ u.inbox = n.inbox /\ u.pending = n.pending
        /\ u.sent = n.sent /\ u.userSock[j] = s
        /\ \A z \in Joins \ {j} : u.userSock[z] = n.userSock[z]
    BY <1>1, UpdateSocketIs
  <2>2. WithUser(n, j) = k
    BY <1>4 DEF WithUser, NewUser
  <2> HIDE DEF u, p, s
  <2>3. HeardInv(u)
    BY <1>3, <2>1 DEF p
  <2>4. k \in Nodes /\ SameRooms(k, u) /\ SameTalk(k, u)
    <3>1. j \in Objects
      BY DEF Objects
    <3>2. QED
      BY <1>1, <2>1, <3>1, SetUsersIs, Zenon
  <2> HIDE DEF k
  <2>5. StillHeard(k, u)
    BY <2>1, <2>4, SameTalkHeard
  <2>6. QED
    BY <2>2, <2>3, <2>5 DEF StillHeard
<1>5. CASE x # 0 /\ n.userSock[x] = NoSock
  <2> DEFINE u == UpdateSocket(n, x, s)
  <2>1. x \in Joins /\ Player(x) = p
    BY <1>1, <1>5 DEF Objects, FiledInv
  <2>2. WithUser(n, j) = u
    BY <1>5 DEF WithUser
  <2> HIDE DEF x, s, p
  <2>3. /\ u \in Nodes /\ SameRooms(u, n) /\ u.inbox = n.inbox /\ u.pending = n.pending
        /\ u.sent = n.sent /\ u.userSock[x] = s
        /\ \A z \in Joins \ {x} : u.userSock[z] = n.userSock[z]
    BY <1>1, <2>1, UpdateSocketIs
  <2> HIDE DEF u
  <2>4. QED
    BY <1>3, <2>1, <2>2, <2>3
<1>6. CASE x # 0 /\ n.userSock[x] # NoSock
  BY <1>6 DEF WithUser
<1>7. QED
  BY <1>4, <1>5, <1>6

\* A Room object that was not made before.
LEMMA WithRoomGood ==
  ASSUME LifecycleAssumption, NEW K, NEW n \in GoodNodes(K), NEW j \in Joins,
         NEW r \in Rooms, r \in K, n.roomId[j] = NoRoom
  PROVE  LET k == WithRoom(n, j, r)
         IN /\ k \in GoodNodes(K) /\ k.users = n.users
            /\ k.rooms[r] \in Joins /\ k.roomId[k.rooms[r]] = r
            /\ \A o \in Joins : k.roomId[o] = n.roomId[o] \/ (o = j /\ k.roomId[o] = r)
            /\ k.members = n.members /\ k.visitors = n.visitors
            /\ \A q \in Rooms : k.rooms[q] = n.rooms[q] \/ (q = r /\ k.rooms[q] = j)
            /\ Hushed(k, n)
<1> DEFINE v == [n.rooms EXCEPT ![r] = j]
           w == [n.roomId EXCEPT ![j] = r]
           t == [n.isLogic EXCEPT ![j] = r \in n.logicRooms]
           a == [n EXCEPT !.rooms = v]
           b == [a EXCEPT !.roomId = w]
           k == [b EXCEPT !.isLogic = t]
<1>1. /\ n \in Nodes /\ n.rooms \in [Rooms -> Objects]
      /\ n.roomId \in [Joins -> Rooms \cup {NoRoom}] /\ n.isLogic \in [Joins -> BOOLEAN]
  BY DEF GoodNodes, Nodes
<1>2. /\ FiledInv(n) /\ BlankInv(n) /\ VisitInv(n) /\ FullInv(n)
      /\ OnceInv(n) /\ CompleteInv(n) /\ KnownInv(n, K)
  BY DEF GoodNodes
<1>3. CASE n.rooms[r] # 0
  <2>1. n.rooms[r] \in Joins
    BY <1>1, <1>3 DEF Objects
  <2>2. WithRoom(n, j, r) = n
    BY <1>3 DEF WithRoom
  <2>3. QED
    BY <1>2, <1>3, <2>1, <2>2 DEF FiledInv, Hushed
<1>4. CASE n.rooms[r] = 0
  <2>1. v \in [Rooms -> Objects] /\ w \in [Joins -> Rooms \cup {NoRoom}]
        /\ t \in [Joins -> BOOLEAN]
    <3>1. (r \in n.logicRooms) \in BOOLEAN
      OBVIOUS
    <3>2. QED
      BY <1>1, <3>1 DEF Objects
  <2>2. WithRoom(n, j, r) = k
    <3>1. (~(r \notin n.logicRooms)) = (r \in n.logicRooms)
      OBVIOUS
    <3>2. WithRoom(n, j, r) = [n EXCEPT !.rooms[r] = j, !.roomId[j] = r,
                                        !.isLogic[j] = ~(r \notin n.logicRooms)]
      BY <1>4, Zenon DEF WithRoom, NewRoom
    <3>3. QED
      BY <3>1, <3>2, <1>1 DEF Nodes
  <2>3. /\ v[r] = j /\ \A q \in Rooms \ {r} : v[q] = n.rooms[q]
        /\ w[j] = r /\ \A o \in Joins \ {j} : w[o] = n.roomId[o]
        /\ (t[j] <=> r \in n.logicRooms) /\ \A o \in Joins \ {j} : t[o] = n.isLogic[o]
    BY <1>1
  <2> HIDE DEF v, w, t
  <2>4. /\ a \in Nodes /\ a.rooms = v /\ a.roomId = n.roomId /\ a.isLogic = n.isLogic
        /\ a.members = n.members /\ a.visitors = n.visitors /\ a.started = n.started
        /\ a.closed = n.closed /\ a.saves = n.saves /\ a.logicRooms = n.logicRooms
        /\ a.users = n.users
        /\ a.userSock = n.userSock /\ a.inbox = n.inbox /\ a.sent = n.sent
        /\ a.pending = n.pending
    BY <1>1, <2>1, ZenonT(60) DEF Nodes
  <2> HIDE DEF a
  <2>5. /\ b \in Nodes /\ b.rooms = a.rooms /\ b.roomId = w /\ b.isLogic = a.isLogic
        /\ b.members = a.members /\ b.visitors = a.visitors /\ b.started = a.started
        /\ b.closed = a.closed /\ b.saves = a.saves /\ b.logicRooms = a.logicRooms
        /\ b.users = a.users
        /\ b.userSock = a.userSock /\ b.inbox = a.inbox /\ b.sent = a.sent
        /\ b.pending = a.pending
    BY <2>1, <2>4, ZenonT(60) DEF Nodes
  <2> HIDE DEF b
  <2>6. /\ k \in Nodes /\ k.rooms = b.rooms /\ k.roomId = b.roomId /\ k.isLogic = t
        /\ k.members = b.members /\ k.visitors = b.visitors /\ k.started = b.started
        /\ k.closed = b.closed /\ k.saves = b.saves /\ k.logicRooms = b.logicRooms
        /\ k.users = b.users
        /\ k.userSock = b.userSock /\ k.inbox = b.inbox /\ k.sent = b.sent
        /\ k.pending = b.pending
    BY <2>1, <2>5, ZenonT(60) DEF Nodes
  <2> HIDE DEF k
  <2>7. /\ k.rooms = v /\ k.roomId = w /\ k.isLogic = t /\ k.users = n.users
        /\ k.members = n.members /\ k.visitors = n.visitors /\ k.started = n.started
        /\ k.closed = n.closed /\ k.saves = n.saves /\ k.logicRooms = n.logicRooms
    BY <2>4, <2>5, <2>6
  <2>8. Hushed(k, n)
    BY <2>4, <2>5, <2>6 DEF Hushed
  <2>9. r # NoRoom /\ j # 0 /\ ~n.started[j]
    BY <1>2, JoinNumbers DEF LifecycleAssumption, BlankInv
  <2>10. \A q \in Rooms \ {r} : n.rooms[q] # 0 => n.rooms[q] \in Joins \ {j}
    <3>1. \A q \in Rooms : n.rooms[q] # 0 => n.rooms[q] \in Joins /\ n.roomId[n.rooms[q]] = q
      BY <1>1, <1>2 DEF FiledInv, Objects
    <3>2. NoRoom \notin Rooms
      BY DEF LifecycleAssumption
    <3>3. QED
      BY <3>1, <3>2
  <2>11. FiledInv(k)
    <3>1. ASSUME NEW q \in Rooms, k.rooms[q] # 0 PROVE k.roomId[k.rooms[q]] = q
      BY <1>2, <2>3, <2>7, <2>10, <3>1 DEF FiledInv
    <3>2. QED
      BY <1>2, <2>7, <3>1 DEF FiledInv
  <2>12. BlankInv(k)
    BY <1>2, <2>3, <2>7, <2>9 DEF BlankInv
  <2>13. VisitInv(k) /\ CompleteInv(k)
    BY <1>2, <2>7 DEF VisitInv, CompleteInv
  <2>14. FullInv(k)
    BY <1>2, <2>3, <2>7, <2>9 DEF FullInv
  <2>15. OnceInv(k)
    <3>1. ASSUME NEW q \in Rooms, q \in n.closed, k.rooms[q] # 0
          PROVE  ~k.isLogic[k.rooms[q]]
      <4>1. q \notin n.logicRooms
        BY <1>2, <3>1 DEF OnceInv
      <4>2. CASE q = r
        BY <2>3, <2>7, <4>1, <4>2
      <4>3. CASE q # r
        <5>1. k.rooms[q] = n.rooms[q] /\ n.rooms[q] # 0
          BY <2>3, <2>7, <3>1, <4>3
        <5>2. n.rooms[q] \in Joins \ {j}
          BY <2>10, <4>3, <5>1
        <5>3. ~n.isLogic[n.rooms[q]]
          BY <1>2, <3>1, <5>1 DEF OnceInv
        <5>4. k.isLogic[n.rooms[q]] <=> n.isLogic[n.rooms[q]]
          BY <2>3, <2>7, <5>2
        <5>5. QED
          BY <5>1, <5>3, <5>4
      <4>4. QED
        BY <4>2, <4>3
    <3>2. QED
      BY <1>2, <2>7, <3>1 DEF OnceInv
  <2>16. KnownInv(k, K)
    BY <1>2, <2>3, <2>7 DEF KnownInv
  <2>17. k \in GoodNodes(K)
    BY <2>6, <2>11, <2>12, <2>13, <2>14, <2>15, <2>16 DEF GoodNodes
  <2>18. QED
    BY <2>2, <2>3, <2>7, <2>8, <2>17 DEF v
<1>5. QED
  BY <1>3, <1>4

\* What a join adds to the room and to the player's User object.
Arrived(n, j, x, o) ==
  [n EXCEPT !.members[o] = Append(@, Player(j)), !.visitors[o] = Append(@, Player(j)),
            !.userRoom[x] = n.roomId[o], !.userState[x] = "entered"]

LEMMA ArrivedTalks ==
  ASSUME LifecycleAssumption, NEW n \in Nodes, NEW j \in Joins, NEW x \in Joins,
         NEW o \in Joins
  PROVE  LET k == Arrived(n, j, x, o)
         IN /\ k.userSock = n.userSock /\ k.sent = n.sent /\ k.pending = n.pending
            /\ k.inbox = n.inbox /\ k.started = n.started
            /\ k.members[o] = Append(n.members[o], Player(j))
            /\ \A q \in Joins \ {o} : k.members[q] = n.members[q]
<1> DEFINE v == [n.visitors EXCEPT ![o] = Append(n.visitors[o], Player(j))]
           l == [n.members EXCEPT ![o] = Append(n.members[o], Player(j))]
           w == [n.userRoom EXCEPT ![x] = n.roomId[o]]
           t == [n.userState EXCEPT ![x] = "entered"]
           k == [n EXCEPT !.members = l, !.visitors = v, !.userRoom = w, !.userState = t]
<1>1. Arrived(n, j, x, o) = k
  BY DEF Arrived
<1>2. l[o] = Append(n.members[o], Player(j)) /\ \A q \in Joins \ {o} : l[q] = n.members[q]
  BY DEF Nodes
<1> HIDE DEF v, l, w, t
<1>3. /\ k.userSock = n.userSock /\ k.sent = n.sent /\ k.pending = n.pending
      /\ k.inbox = n.inbox /\ k.started = n.started /\ k.members = l
  BY DEF Nodes
<1> HIDE DEF k
<1>4. QED
  BY <1>1, <1>2, <1>3

\* A player who was not in the room has one seat in it.
LEMMA ArrivedHeard ==
  ASSUME LifecycleAssumption, NEW n \in Nodes, HeardInv(n), NEW j \in Joins, NEW x \in Joins,
         NEW o \in Joins, \A i \in 1..Len(n.members[o]) : n.members[o][i] # Player(j)
  PROVE  HeardInv(Arrived(n, j, x, o))
<1> DEFINE k == Arrived(n, j, x, o)
           p == Player(j)
<1>1. /\ k.userSock = n.userSock /\ k.sent = n.sent /\ k.pending = n.pending
      /\ k.inbox = n.inbox /\ k.started = n.started
      /\ k.members[o] = Append(n.members[o], p)
      /\ \A q \in Joins \ {o} : k.members[q] = n.members[q]
  BY ArrivedTalks
<1>2. n.members[o] \in Seq(Players) /\ Distinct(n.members[o]) /\ p \in Players
  BY PlayerOf DEF Nodes, HeardInv, SeatsOnce
<1> HIDE DEF k, p
<1>3. Distinct(Append(n.members[o], p))
  <2> DEFINE l == n.members[o]
  <2>1. l \in Seq(Players) /\ Distinct(l) /\ \A i \in 1..Len(l) : l[i] # p
    BY <1>2 DEF p
  <2> HIDE DEF l
  <2>2. Distinct(Append(l, p))
    BY <1>2, <2>1, DistinctAppend
  <2>3. QED
    BY <2>2 DEF l
<1>4. SeatsOnce(k)
  BY <1>1, <1>3 DEF HeardInv, SeatsOnce
<1>5. OwnSocks(k) /\ WaitInv(k)
  BY <1>1 DEF HeardInv, OwnSocks, WaitInv
<1>6. BoxInv(k) /\ OrderInv(k)
  BY <1>1 DEF HeardInv, BoxInv, OrderInv
<1>7. QED
  BY <1>4, <1>5, <1>6 DEF HeardInv, k

LEMMA ArrivedGood ==
  ASSUME LifecycleAssumption, NEW K, NEW n \in GoodNodes(K), NEW j \in Joins,
         NEW x \in Joins, NEW o \in Joins, n.roomId[o] # NoRoom
  PROVE  LET k == Arrived(n, j, x, o)
         IN /\ k \in GoodNodes(K) /\ k.roomId = n.roomId /\ k.rooms = n.rooms
            /\ k.members[o] # << >> /\ \A q \in Joins \ {o} : k.members[q] = n.members[q]
<1> DEFINE p == Player(j)
           v == [n.visitors EXCEPT ![o] = Append(n.visitors[o], p)]
           l == Append(n.members[o], p)
           w == [n.userRoom EXCEPT ![x] = n.roomId[o]]
           t == [n.userState EXCEPT ![x] = "entered"]
           a == [n EXCEPT !.visitors = v]
           b == SetMembers(a, o, l)
           c == [b EXCEPT !.userRoom = w]
           d == [c EXCEPT !.userState = t]
<1>1. /\ n \in Nodes /\ p \in Players /\ n.visitors \in [Joins -> Seq(Players)]
      /\ n.members \in [Joins -> Seq(Players)]
      /\ FiledInv(n) /\ BlankInv(n) /\ VisitInv(n) /\ FullInv(n)
      /\ OnceInv(n) /\ CompleteInv(n) /\ KnownInv(n, K)
  BY PlayerOf DEF GoodNodes, Nodes
<1>2. /\ v \in [Joins -> Seq(Players)] /\ l \in Seq(Players)
      /\ ToSet(v[o]) = ToSet(n.visitors[o]) \cup {p}
      /\ ToSet(l) = ToSet(n.members[o]) \cup {p}
      /\ \A q \in Joins \ {o} : v[q] = n.visitors[q]
  <2>1. n.visitors[o] \in Seq(Players) /\ n.members[o] \in Seq(Players)
    BY <1>1
  <2>2. /\ ToSet(Append(n.visitors[o], p)) = ToSet(n.visitors[o]) \cup {p}
        /\ ToSet(Append(n.members[o], p)) = ToSet(n.members[o]) \cup {p}
    <3> HIDE DEF p
    <3>1. \A q \in Seq(Players) : ToSet(Append(q, p)) = ToSet(q) \cup {p}
      BY <1>1, ToSetAppend
    <3>2. QED
      BY <2>1, <3>1
  <2>3. QED
    BY <1>1, <2>1, <2>2
<1>3. w \in [Joins -> Rooms \cup {NoRoom}]
  BY <1>1 DEF Nodes
<1>4. t \in [Joins -> {"init", "entered", "disconnect"}]
  BY <1>1 DEF Nodes
<1>5. Arrived(n, j, x, o) = d
  BY <1>1 DEF Arrived, SetMembers, Nodes
<1> HIDE DEF v, w, t, l, p
<1>6. /\ a \in Nodes /\ a.visitors = v /\ a.members = n.members /\ a.rooms = n.rooms
      /\ a.roomId = n.roomId /\ a.isLogic = n.isLogic /\ a.started = n.started
      /\ a.closed = n.closed /\ a.saves = n.saves /\ a.logicRooms = n.logicRooms
      /\ a.users = n.users
  BY <1>1, <1>2 DEF Nodes
<1> HIDE DEF a
<1>7. \A q \in Joins : ToSet(n.visitors[q]) \subseteq ToSet(a.visitors[q])
  BY <1>2, <1>6
<1>8. FiledInv(a) /\ OnceInv(a) /\ CompleteInv(a) /\ KnownInv(a, K)
  <2>1. FiledInv(n) /\ OnceInv(n) /\ CompleteInv(n) /\ KnownInv(n, K)
    BY <1>1 DEF GoodNodes
  <2> HIDE DEF b, c, d
  <2>2. FiledInv(a)
    BY <1>6, <2>1 DEF FiledInv
  <2>3. OnceInv(a)
    BY <1>6, <2>1 DEF OnceInv
  <2>4. CompleteInv(a)
    BY <1>6, <2>1 DEF CompleteInv
  <2>5. KnownInv(a, K)
    BY <1>6, <2>1 DEF KnownInv
  <2>6. QED
    BY <2>2, <2>3, <2>4, <2>5
<1>9. VisitInv(a)
  BY <1>1, <1>6, <1>7 DEF VisitInv
<1>10. BlankInv(a)
  BY <1>1, <1>2, <1>6 DEF BlankInv
<1>11. FullInv(a)
  <2>1. ASSUME NEW r \in Rooms, a.rooms[r] # 0, a.started[a.rooms[r]]
        PROVE  Expect[r] \subseteq ToSet(a.visitors[a.rooms[r]])
    <3>1. a.rooms[r] \in Joins /\ a.rooms[r] = n.rooms[r]
      BY <1>6, <2>1 DEF Nodes, Objects
    <3>2. Expect[r] \subseteq ToSet(n.visitors[n.rooms[r]])
      BY <1>1, <1>6, <2>1, <3>1 DEF FullInv
    <3>3. QED
      BY <1>7, <3>1, <3>2
  <2>2. QED
    BY <2>1 DEF FullInv
<1>12. a \in GoodNodes(K)
  BY <1>6, <1>8, <1>9, <1>10, <1>11 DEF GoodNodes
<1>13. ToSet(l) \subseteq ToSet(a.visitors[o])
  BY <1>1, <1>2, <1>6 DEF VisitInv
<1>14. b \in GoodNodes(K)
  BY <1>2, <1>6, <1>12, <1>13, MembersGood
<1>15. /\ b \in Nodes /\ b.roomId = a.roomId /\ b.rooms = a.rooms
       /\ b.members[o] = l /\ \A q \in Joins \ {o} : b.members[q] = a.members[q]
  <2>1. /\ b \in Nodes /\ b.members = [a.members EXCEPT ![o] = l]
        /\ b.logicRooms = a.logicRooms /\ b.rooms = a.rooms /\ b.roomId = a.roomId
    BY <1>2, <1>6, SetMembersIs
  <2>2. a.members \in [Joins -> Seq(Players)]
    BY <1>1, <1>6
  <2>3. QED
    BY <2>1, <2>2
<1> HIDE DEF b
<1>16. c \in Nodes /\ SameRooms(c, b) /\ c.users = b.users
  BY <1>3, <1>15 DEF Nodes, SameRooms
<1>17. c \in GoodNodes(K)
  BY <1>14, <1>16, SameRoomsGood DEF OwnUsers
<1> HIDE DEF c
<1>18. d \in Nodes /\ SameRooms(d, c) /\ d.users = c.users
  BY <1>4, <1>16 DEF Nodes, SameRooms
<1>19. d \in GoodNodes(K)
  BY <1>17, <1>18, SameRoomsGood DEF OwnUsers
<1> HIDE DEF d
<1>20. l # << >>
  <2>1. n.members[o] \in Seq(Players)
    BY <1>1
  <2>2. Len(l) = Len(n.members[o]) + 1 /\ Len(n.members[o]) \in Nat
    BY <1>1, <2>1 DEF l
  <2>3. QED
    BY <2>2
<1>21. d.members = b.members /\ d.roomId = b.roomId /\ d.rooms = b.rooms
  BY <1>16, <1>18 DEF SameRooms
<1>22. QED
  BY <1>5, <1>6, <1>15, <1>19, <1>20, <1>21

\* room.joined is sent, and the room starts, when everyone is in.
LEMMA CompleteGood ==
  ASSUME LifecycleAssumption, NEW K, NEW n \in GoodNodes(K), NEW j \in Joins,
         NEW x \in Joins, NEW o \in Joins, n.roomId[o] # NoRoom
  PROVE  LET k == Complete(n, j, x, o)
         IN /\ k \in GoodNodes(K) /\ k.roomId = n.roomId /\ k.rooms = n.rooms
            /\ k.members[o] # << >> /\ \A q \in Joins \ {o} : k.members[q] = n.members[q]
            /\ StillHeard(k, Arrived(n, j, x, o))
<1> DEFINE r    == n.roomId[o]
           in   == Arrived(n, j, x, o)
           room == IF o = j THEN in.rooms[r] ELSE o
           m    == Message(0, << >>, TRUE)
           k    == RoomSend(in, room, m)
<1>1. /\ in \in GoodNodes(K) /\ in.roomId = n.roomId /\ in.rooms = n.rooms
      /\ in.members[o] # << >> /\ \A q \in Joins \ {o} : in.members[q] = n.members[q]
  BY ArrivedGood
<1>2. in \in Nodes /\ r \in Rooms /\ n \in Nodes
  BY <1>1, ZenonT(60) DEF GoodNodes, Nodes
<1>3. Complete(n, j, x, o) =
        IF room # 0 /\ EveryoneIsIn(in, room, r) THEN Start(k, room) ELSE in
  BY DEF Complete, Arrived
<1> HIDE DEF in
<1>4. CASE room # 0 /\ EveryoneIsIn(in, room, r)
  <2>1. room \in Joins /\ in.roomId[room] = r
    <3>1. room \in Objects /\ room # 0
      BY <1>2, <1>4 DEF Nodes, Objects
    <3>2. room \in Joins
      BY <3>1 DEF Objects
    <3>3. FiledInv(in)
      BY <1>1 DEF GoodNodes
    <3>4. in.roomId[room] = r
      BY <1>1, <1>2, <1>4, <3>3 DEF FiledInv
    <3>5. QED
      BY <3>2, <3>4
  <2>2. m \in Texts
    <3>1. Len(Says) \in Nat /\ << >> \in Seq(Players)
      BY DEF LifecycleAssumption
    <3>2. QED
      BY <3>1 DEF Texts, Message
  <2> HIDE DEF m, room
  <2>3. k \in GoodNodes(K) /\ SameRooms(k, in)
    BY <1>1, <2>1, <2>2, RoomSendGood
  <2> HIDE DEF k
  <2>4. /\ k.roomId[room] = r /\ r # NoRoom /\ k.roomId = n.roomId
        /\ k.rooms = n.rooms /\ k.members = in.members
    BY <1>1, <2>1, <2>3 DEF SameRooms
  <2>5. Expect[r] \subseteq ToSet(k.visitors[room])
    <3>1. Expect[r] = ToSet(in.members[room])
      BY <1>4 DEF EveryoneIsIn
    <3>2. VisitInv(in)
      BY <1>1 DEF GoodNodes
    <3>3. QED
      BY <2>1, <2>3, <3>1, <3>2 DEF VisitInv, SameRooms
  <2>6. \A q \in Rooms : k.rooms[q] = room => Expect[q] \subseteq ToSet(k.visitors[room])
    <3>1. FiledInv(k)
      BY <2>3 DEF GoodNodes
    <3>2. ASSUME NEW q \in Rooms, k.rooms[q] = room PROVE q = r
      BY <1>4, <2>4, <3>1, <3>2 DEF FiledInv
    <3>3. QED
      BY <2>5, <3>2
  <2>7. /\ Start(k, room) \in GoodNodes(K) /\ Start(k, room).roomId = k.roomId
        /\ Start(k, room).rooms = k.rooms /\ Start(k, room).members = k.members
    BY <2>1, <2>3, <2>4, <2>6, StartGood
  <2>8. Complete(n, j, x, o) = Start(k, room)
    BY <1>3, <1>4
  <2>9. ASSUME HeardInv(in) PROVE HeardInv(Start(k, room))
    <3>1. Takes(k, in, room, m) /\ k.userSock = in.userSock /\ k.sent = in.sent
      BY <1>1, <2>1, <2>2, <2>9, RoomSendTakes, RoomSendGood DEF k, m, Message
    <3>2. in.sent[room] \in Nat
      BY <1>2, <2>1 DEF Nodes
    <3>3. m.n = 0 /\ m.live
      BY DEF m, Message
    <3>4. k.members = in.members /\ k.started = in.started
      BY <2>3 DEF SameRooms
    <3>5. k \in Nodes
      BY <2>3 DEF GoodNodes
    <3>6. HeardInv(k)
      BY <1>2, <2>1, <2>2, <2>9, <3>1, <3>2, <3>3, <3>4, <3>5, TakenHeard
    <3>7. PICK b \in GoodNodes(K) :
            Starting(b, k, room) /\ Start(k, room) = SendPending(b, room)
      BY <2>1, <2>3, <2>4, <2>6, StartsGood, SMTT(30)
    <3>8. HeardInv(SendPending(b, room))
      BY <2>1, <3>5, <3>6, <3>7, SendPendingHeard DEF Starting
    <3>9. QED
      BY <3>7, <3>8
  <2>10. QED
    BY <1>1, <2>4, <2>7, <2>8, <2>9 DEF StillHeard, in
<1>5. CASE ~(room # 0 /\ EveryoneIsIn(in, room, r))
  BY <1>1, <1>3, <1>5 DEF StillHeard, in
<1>6. QED
  BY <1>4, <1>5

-----------------------------------------------------------------------------
(* The invariant of the specification: the node's, and what the joins hold *)
(* on to while they wait.                                                  *)

JoinsInv ==
  /\ roomMap \subseteq Rooms /\ user2room \in [Players -> roomMap \cup {NoRoom}]
  /\ phase \in [Joins -> {"idle", "code", "load", "done"}]
  /\ joinUser \in [Joins -> Objects] /\ joinRoom \in [Joins -> Objects]
  /\ \A j \in Joins : phase[j] \in {"idle", "code"} => roomId[j] = NoRoom
  /\ \A j \in Joins : phase[j] = "load" =>
       /\ joinUser[j] \in Joins /\ joinRoom[j] \in Joins
       /\ roomId[joinRoom[j]] # NoRoom

LifeInv == Node \in GoodNodes(roomMap) /\ JoinsInv

LEMMA BecomesIs ==
  ASSUME NEW n \in Nodes, Becomes(n)
  PROVE  Node' = n
BY DEF Node, Nodes, Becomes

\* A step that keeps the node's rooms good, whatever it does to the maps and the joins.
LEMMA BecomesGood ==
  ASSUME NEW K, NEW n \in GoodNodes(K), Becomes(n), roomMap' = K
  PROVE  (Node \in GoodNodes(roomMap))' /\ roomId' = n.roomId
<1>1. Node' = n
  BY BecomesIs DEF GoodNodes
<1>2. QED
  BY <1>1 DEF Becomes

LEMMA NodeIs ==
  /\ Node.logicRooms = logicRooms /\ Node.rooms = rooms /\ Node.roomId = roomId
  /\ Node.isLogic = isLogic /\ Node.members = members /\ Node.visitors = visitors
  /\ Node.started = started /\ Node.closed = closed /\ Node.saves = saves
  /\ Node.users = users /\ Node.userRoom = userRoom /\ Node.userSock = userSock
  /\ Node.sock = sock /\ Node.listeners = listeners /\ Node.sent = sent
  /\ Node.pending = pending /\ Node.early = early /\ Node.inbox = inbox
  /\ Node.userState = userState /\ Node.timer = timer /\ Node.talked = talked
  /\ Node.logicUsers = logicUsers
BY DEF Node

\* An open room nobody is in is one a join is about to enter, before and after a step.
EmptyKept == EmptyRoomCloses => EmptyRoomCloses'

\* A step that changes neither the maps nor the joins, and closes rooms at most.
LEMMA NodeStep ==
  ASSUME LifeInv, NEW n \in GoodNodes(roomMap), Becomes(n), UNCHANGED <<matchVars, joinVars>>,
         Keeps(n, Node), EmptiesNone(n, Node)
  PROVE  LifeInv' /\ EmptyKept /\ Node' = n
<1>1. roomMap' = roomMap /\ user2room' = user2room /\ UNCHANGED <<phase, joinUser, joinRoom>>
  BY DEF matchVars, joinVars
<1>2. (Node \in GoodNodes(roomMap))' /\ roomId' = roomId
  BY <1>1, BecomesGood, NodeIs DEF Keeps
<1>3. JoinsInv'
  BY <1>1, <1>2 DEF LifeInv, JoinsInv
<1>4. ASSUME EmptyRoomCloses, NEW r \in Rooms, rooms'[r] # 0, members'[rooms'[r]] = << >>
      PROVE  \E j \in Joins : phase'[j] = "load" /\ joinRoom'[j] = rooms'[r]
  <2>1. rooms' = n.rooms /\ members' = n.members
    BY DEF Becomes
  <2>2. rooms[r] = n.rooms[r] /\ members[rooms[r]] = << >>
    BY <1>4, <2>1, NodeIs DEF Keeps, EmptiesNone
  <2>3. PICK j \in Joins : phase[j] = "load" /\ joinRoom[j] = rooms[r]
    BY <1>4, <2>1, <2>2 DEF EmptyRoomCloses
  <2>4. QED
    BY <1>1, <2>1, <2>2, <2>3
<1>5. Node' = n
  BY BecomesIs DEF GoodNodes
<1>6. QED
  BY <1>2, <1>3, <1>4, <1>5 DEF LifeInv, EmptyKept, EmptyRoomCloses

\* What the players heard stays in order in a step.
HeardKept == HeardInv(Node) => HeardInv(Node)'

\* What was sent goes on waiting in a step, or everyone gets it when the room starts.
TellKept == TellInv(Node) => TellInv(Node)' /\ Reaches(Node', Node)

\* A step that closes rooms, or lets players leave, at most.
LEMMA ClosesStep ==
  ASSUME LifeInv, NEW n \in GoodNodes(roomMap), Becomes(n), UNCHANGED <<matchVars, joinVars>>,
         Closes(n, Node)
  PROVE  LifeInv' /\ EmptyKept /\ HeardKept /\ TellKept
<1>1. LifeInv' /\ EmptyKept /\ Node' = n
  BY NodeStep DEF Closes
<1>2. HeardKept
  BY <1>1 DEF Closes, StillHeard, HeardKept
<1>3. Node \in Nodes /\ n \in Nodes
  BY DEF LifeInv, GoodNodes
<1>4. TellKept
  BY <1>1, <1>3, QuietTells DEF Closes, TellKept
<1>5. QED
  BY <1>1, <1>2, <1>4

LEMMA LifeInit == ASSUME LifecycleAssumption, Init PROVE LifeInv
<1>1. Node \in Nodes
  <2>1. Len(Says) \in Nat
    BY DEF LifecycleAssumption
  <2>2. /\ logicRooms = {} /\ logicUsers = {} /\ closed = {}
        /\ sock \in [Socks -> {"open", "closing", "closed"}]
        /\ listeners \in [Socks -> Seq(Joins)] /\ inbox \in [Socks -> Seq(Notes)]
        /\ users \in [Players -> Objects] /\ rooms \in [Rooms -> Objects]
        /\ saves \in [Rooms -> Seq(Saves)]
    BY DEF Init, Objects
  <2>3. /\ userSock \in [Joins -> Socks \cup {NoSock}]
        /\ userRoom \in [Joins -> Rooms \cup {NoRoom}]
        /\ userState \in [Joins -> {"init", "entered", "disconnect"}]
        /\ timer \in [Joins -> BOOLEAN] /\ talked \in [Joins -> BOOLEAN]
        /\ roomId \in [Joins -> Rooms \cup {NoRoom}] /\ isLogic \in [Joins -> BOOLEAN]
    BY DEF Init
  <2>4. /\ members \in [Joins -> Seq(Players)] /\ visitors \in [Joins -> Seq(Players)]
        /\ started \in [Joins -> BOOLEAN] /\ pending \in [Joins -> Seq(Texts)]
        /\ sent \in [Joins -> 0..Len(Says)] /\ early \in [Joins -> 0..Len(Says)]
    BY <2>1 DEF Init
  <2>5. QED
    BY <2>2, <2>3, <2>4 DEF Node, Nodes
<1>2. FiledInv(Node) /\ FullInv(Node) /\ KnownInv(Node, roomMap)
  BY NodeIs DEF Init, FiledInv, FullInv, KnownInv
<1>3. BlankInv(Node) /\ VisitInv(Node)
  BY NodeIs DEF Init, BlankInv, VisitInv
<1>4. OnceInv(Node) /\ CompleteInv(Node)
  BY NodeIs DEF Init, OnceInv, CompleteInv
<1>5. JoinsInv
  BY DEF Init, JoinsInv, Objects
<1>6. QED
  BY <1>1, <1>2, <1>3, <1>4, <1>5 DEF LifeInv, GoodNodes

-----------------------------------------------------------------------------
(* One lemma for each action.                                              *)

LEMMA NodeGood ==
  ASSUME LifeInv
  PROVE  Node \in GoodNodes(roomMap) /\ Node \in Nodes /\ Node.roomId = roomId
BY NodeIs DEF LifeInv, GoodNodes

LEMMA MoreRooms ==
  ASSUME NEW K, NEW L, K \subseteq L, NEW n \in GoodNodes(K)
  PROVE  n \in GoodNodes(L)
BY DEF GoodNodes, KnownInv

LEMMA AppointLife ==
  ASSUME LifecycleAssumption, LifeInv, NEW r \in Rooms, Appoint(r)
  PROVE  LifeInv' /\ EmptyKept
<1> DEFINE K == roomMap \cup {r}
           v == logicRooms \cup {r}
           w == logicUsers \cup Expect[r]
           a == [Node EXCEPT !.logicRooms = v]
           k == [a EXCEPT !.logicUsers = w]
<1>1. /\ r \notin roomMap /\ roomMap' = K
      /\ user2room' = [p \in Players |-> IF p \in Expect[r] THEN r ELSE user2room[p]]
      /\ Becomes(SetWorkTypes(Node, r)) /\ UNCHANGED <<phase, joinUser, joinRoom>>
  BY DEF Appoint, StoreResult, joinVars
<1>2. Node \in GoodNodes(K) /\ Node \in Nodes /\ KnownInv(Node, roomMap)
  BY NodeGood, MoreRooms DEF GoodNodes
<1>3. SetWorkTypes(Node, r) = k
  BY DEF SetWorkTypes, Node
<1>4. v \in SUBSET Rooms /\ w \in SUBSET Players
  <2>1. Node.logicRooms \in SUBSET Rooms /\ Node.logicUsers \in SUBSET Players
    BY <1>2 DEF Nodes
  <2>2. Expect[r] \subseteq Players
    BY DEF LifecycleAssumption
  <2>3. QED
    BY <2>1, <2>2, NodeIs
<1> HIDE DEF w
<1>5. /\ a \in Nodes /\ a.rooms = Node.rooms /\ a.roomId = Node.roomId
      /\ a.isLogic = Node.isLogic /\ a.members = Node.members
      /\ a.visitors = Node.visitors /\ a.started = Node.started
      /\ a.closed = Node.closed /\ a.saves = Node.saves /\ a.users = Node.users
      /\ a.logicRooms = Node.logicRooms \cup {r}
  BY <1>2, <1>4, NodeIs DEF Nodes
<1> HIDE DEF a, v
<1>6. /\ FiledInv(Node) /\ BlankInv(Node) /\ VisitInv(Node) /\ FullInv(Node)
      /\ OnceInv(Node) /\ CompleteInv(Node) /\ KnownInv(Node, K)
  BY <1>2 DEF GoodNodes
<1>7. FiledInv(a) /\ BlankInv(a) /\ VisitInv(a)
  BY <1>5, <1>6 DEF FiledInv, BlankInv, VisitInv
<1>8. FullInv(a) /\ CompleteInv(a)
  BY <1>5, <1>6 DEF FullInv, CompleteInv
<1>9. OnceInv(a)
  <2>1. r \notin a.closed
    BY <1>1, <1>2, <1>5 DEF KnownInv
  <2>2. QED
    BY <1>5, <1>6, <2>1 DEF OnceInv
<1>10. KnownInv(a, K)
  BY <1>5, <1>6 DEF KnownInv
<1>11. a \in GoodNodes(K)
  BY <1>5, <1>7, <1>8, <1>9, <1>10 DEF GoodNodes
<1>12. k \in Nodes /\ SameRooms(k, a) /\ k.users = a.users
  BY <1>4, <1>5 DEF Nodes, SameRooms
<1>13. k \in GoodNodes(K) /\ k.roomId = a.roomId
  BY <1>11, <1>12, SameRoomsGood DEF OwnUsers, SameRooms
<1> HIDE DEF k
<1>14. /\ (Node \in GoodNodes(roomMap))' /\ roomId' = roomId
       /\ rooms' = rooms /\ members' = members
  <2>1. roomId' = k.roomId /\ (Node \in GoodNodes(roomMap))'
    BY <1>1, <1>3, <1>13, BecomesGood
  <2>2. rooms' = k.rooms /\ members' = k.members
    BY <1>1, <1>3 DEF Becomes
  <2>3. QED
    BY <1>5, <1>12, <1>13, <2>1, <2>2, NodeIs DEF SameRooms
<1>15. JoinsInv'
  <2>1. JoinsInv
    BY DEF LifeInv
  <2>2. (roomMap \subseteq Rooms)'
    BY <1>1, <2>1 DEF JoinsInv
  <2>3. (user2room \in [Players -> roomMap \cup {NoRoom}])'
    BY <1>1, <2>1 DEF JoinsInv
  <2>4. QED
    BY <1>1, <1>14, <2>1, <2>2, <2>3 DEF JoinsInv
<1>16. EmptyKept
  BY <1>1, <1>14 DEF EmptyKept, EmptyRoomCloses
<1>17. QED
  BY <1>14, <1>15, <1>16 DEF LifeInv

\* Game.enter, up to its end or to the await on the player's data.
LEMMA EnterLife ==
  ASSUME LifecycleAssumption, LifeInv, NEW j \in Joins, phase[j] \in {"idle", "code"},
         Enter(j), UNCHANGED matchVars
  PROVE  LifeInv'
<1> DEFINE p == Player(j)
           r == user2room[p]
           m == WithUser(Node, j)
           x == m.users[p]
           n == WithRoom(m, j, r)
           o == n.rooms[r]
           c == Complete(n, j, x, o)
<1>1. /\ Node \in GoodNodes(roomMap) /\ Node.roomId = roomId /\ JoinsInv
      /\ roomMap' = roomMap /\ user2room' = user2room
  BY NodeGood DEF LifeInv, matchVars
<1>2. p \in Players /\ roomId[j] = NoRoom
  BY <1>1, PlayerOf DEF JoinsInv
<1>3. m \in GoodNodes(roomMap) /\ m.roomId = roomId /\ x \in Joins
  BY <1>1, WithUserGood DEF SameRooms
<1>4. \/ /\ Becomes(m) /\ phase' = [phase EXCEPT ![j] = "done"]
         /\ UNCHANGED <<joinUser, joinRoom>>
      \/ /\ ~Refused(m, x, p, r) /\ Becomes(c)
         /\ phase' = [phase EXCEPT ![j] = "done"] /\ UNCHANGED <<joinUser, joinRoom>>
      \/ /\ ~Refused(m, x, p, r) /\ Becomes(n) /\ phase' = [phase EXCEPT ![j] = "load"]
         /\ joinUser' = [joinUser EXCEPT ![j] = x]
         /\ joinRoom' = [joinRoom EXCEPT ![j] = o]
  BY DEF Enter
<1> HIDE DEF m, p
<1>5. ASSUME ~Refused(m, x, p, r)
      PROVE  /\ r \in Rooms /\ n \in GoodNodes(roomMap) /\ o \in Joins
             /\ n.roomId[o] = r /\ r # NoRoom
             /\ \A y \in Joins : n.roomId[y] = roomId[y] \/ (y = j /\ n.roomId[y] = r)
  <2>1. r # NoRoom
    BY <1>5 DEF Refused
  <2>2. r \in roomMap /\ r \in Rooms
    BY <1>1, <1>2, <2>1 DEF JoinsInv
  <2>3. m.roomId[j] = NoRoom
    BY <1>2, <1>3
  <2> HIDE DEF r
  <2>4. /\ n \in GoodNodes(roomMap) /\ o \in Joins /\ n.roomId[o] = r
        /\ \A y \in Joins : n.roomId[y] = m.roomId[y] \/ (y = j /\ n.roomId[y] = r)
    BY <1>3, <2>2, <2>3, WithRoomGood
  <2>5. QED
    BY <1>3, <2>1, <2>2, <2>4
<1> HIDE DEF r, x, n
<1>6. CASE /\ Becomes(m) /\ phase' = [phase EXCEPT ![j] = "done"]
           /\ UNCHANGED <<joinUser, joinRoom>>
  <2>1. (Node \in GoodNodes(roomMap))' /\ roomId' = roomId
    BY <1>1, <1>3, <1>6, BecomesGood
  <2>2. JoinsInv'
    BY <1>1, <1>6, <2>1 DEF JoinsInv
  <2>3. QED
    BY <2>1, <2>2 DEF LifeInv
<1>7. CASE /\ ~Refused(m, x, p, r) /\ Becomes(c)
           /\ phase' = [phase EXCEPT ![j] = "done"] /\ UNCHANGED <<joinUser, joinRoom>>
  <2> HIDE DEF o
  <2>1. c \in GoodNodes(roomMap) /\ c.roomId = n.roomId
    BY <1>3, <1>5, <1>7, CompleteGood
  <2> HIDE DEF c
  <2>2. (Node \in GoodNodes(roomMap))' /\ roomId' = n.roomId
    BY <1>1, <1>7, <2>1, BecomesGood
  <2>3. \A y \in Joins : y # j => roomId'[y] = roomId[y]
    BY <1>5, <1>7, <2>2
  <2>4. \A y \in Joins : roomId[y] # NoRoom => roomId'[y] # NoRoom
    BY <1>5, <1>7, <2>2
  <2>5. /\ phase' \in [Joins -> {"idle", "code", "load", "done"}]
        /\ \A y \in Joins : y # j => phase'[y] = phase[y]
        /\ phase'[j] = "done"
    BY <1>1, <1>7 DEF JoinsInv
  <2>6. JoinsInv'
    BY <1>1, <1>7, <2>3, <2>4, <2>5 DEF JoinsInv
  <2>7. QED
    BY <2>2, <2>6 DEF LifeInv
<1>8. CASE /\ ~Refused(m, x, p, r) /\ Becomes(n) /\ phase' = [phase EXCEPT ![j] = "load"]
           /\ joinUser' = [joinUser EXCEPT ![j] = x]
           /\ joinRoom' = [joinRoom EXCEPT ![j] = o]
  <2> HIDE DEF o
  <2>1. (Node \in GoodNodes(roomMap))' /\ roomId' = n.roomId
    BY <1>1, <1>5, <1>8, BecomesGood
  <2>2. \A y \in Joins : y # j => roomId'[y] = roomId[y]
    BY <1>5, <1>8, <2>1
  <2>3. \A y \in Joins : roomId[y] # NoRoom => roomId'[y] # NoRoom
    BY <1>5, <1>8, <2>1
  <2>4. /\ phase' \in [Joins -> {"idle", "code", "load", "done"}]
        /\ \A y \in Joins : y # j => phase'[y] = phase[y]
        /\ phase'[j] = "load"
    BY <1>1, <1>8 DEF JoinsInv
  <2>5. /\ joinUser' \in [Joins -> Objects] /\ joinRoom' \in [Joins -> Objects]
        /\ \A y \in Joins : y # j => joinUser'[y] = joinUser[y] /\ joinRoom'[y] = joinRoom[y]
        /\ joinUser'[j] = x /\ joinRoom'[j] = o /\ x \in Joins /\ o \in Joins
    BY <1>1, <1>3, <1>5, <1>8 DEF JoinsInv, Objects
  <2>6. roomId'[joinRoom'[j]] # NoRoom
    BY <1>5, <1>8, <2>1, <2>5
  <2>7. ASSUME NEW y \in Joins, phase'[y] = "load"
        PROVE  /\ joinUser'[y] \in Joins /\ joinRoom'[y] \in Joins
               /\ roomId'[joinRoom'[y]] # NoRoom
    BY <1>1, <2>3, <2>4, <2>5, <2>6, <2>7 DEF JoinsInv
  <2>8. ASSUME NEW y \in Joins, phase'[y] \in {"idle", "code"}
        PROVE  roomId'[y] = NoRoom
    BY <1>1, <2>2, <2>4, <2>8 DEF JoinsInv
  <2>9. JoinsInv'
    BY <1>1, <2>4, <2>5, <2>7, <2>8 DEF JoinsInv
  <2>10. QED
    BY <2>1, <2>9 DEF LifeInv
<1>9. QED
  BY <1>4, <1>6, <1>7, <1>8

\* A room that Game.enter has made is empty only as long as the join waits.
LEMMA EnterEmpty ==
  ASSUME LifecycleAssumption, LifeInv, NEW j \in Joins, phase[j] \in {"idle", "code"},
         Enter(j), UNCHANGED matchVars
  PROVE  EmptyKept
<1> DEFINE p == Player(j)
           r == user2room[p]
           m == WithUser(Node, j)
           x == m.users[p]
           n == WithRoom(m, j, r)
           o == n.rooms[r]
           c == Complete(n, j, x, o)
<1>1. /\ Node \in GoodNodes(roomMap) /\ JoinsInv /\ p \in Players /\ roomId[j] = NoRoom
  BY NodeGood, PlayerOf DEF LifeInv, JoinsInv
<1>2. /\ m \in GoodNodes(roomMap) /\ m.roomId = roomId /\ m.rooms = rooms
      /\ m.members = members /\ x \in Joins
  BY <1>1, WithUserGood, NodeIs DEF SameRooms
<1>3. \/ /\ Becomes(m) /\ phase' = [phase EXCEPT ![j] = "done"]
         /\ UNCHANGED <<joinUser, joinRoom>>
      \/ /\ ~Refused(m, x, p, r) /\ Becomes(c)
         /\ phase' = [phase EXCEPT ![j] = "done"] /\ UNCHANGED <<joinUser, joinRoom>>
      \/ /\ ~Refused(m, x, p, r) /\ Becomes(n) /\ phase' = [phase EXCEPT ![j] = "load"]
         /\ joinUser' = [joinUser EXCEPT ![j] = x]
         /\ joinRoom' = [joinRoom EXCEPT ![j] = o]
  BY DEF Enter
<1> HIDE DEF m, p
<1>4. ASSUME ~Refused(m, x, p, r)
      PROVE  /\ r \in Rooms /\ n \in GoodNodes(roomMap) /\ o \in Joins /\ n.roomId[o] # NoRoom
             /\ n.members = members
             /\ \A q \in Rooms : n.rooms[q] = rooms[q] \/ q = r
  <2>1. r # NoRoom
    BY <1>4 DEF Refused
  <2>2. r \in roomMap /\ r \in Rooms
    BY <1>1, <2>1 DEF JoinsInv
  <2>3. m.roomId[j] = NoRoom
    BY <1>1, <1>2
  <2> HIDE DEF r
  <2>4. /\ n \in GoodNodes(roomMap) /\ o \in Joins /\ n.roomId[o] = r
        /\ n.members = m.members
        /\ \A q \in Rooms : n.rooms[q] = m.rooms[q] \/ (q = r /\ n.rooms[q] = j)
    BY <1>2, <2>2, <2>3, WithRoomGood
  <2>5. QED
    BY <1>2, <2>1, <2>2, <2>4
<1> HIDE DEF r, x, n
<1>5. SUFFICES ASSUME EmptyRoomCloses, NEW q \in Rooms, rooms'[q] # 0,
                      members'[rooms'[q]] = << >>
               PROVE  \E y \in Joins : phase'[y] = "load" /\ joinRoom'[y] = rooms'[q]
  BY DEF EmptyKept, EmptyRoomCloses
<1>6. ASSUME rooms'[q] = rooms[q], members[rooms[q]] = << >>
      PROVE  \E y \in Joins \ {j} : phase[y] = "load" /\ joinRoom[y] = rooms'[q]
  BY <1>5, <1>6 DEF EmptyRoomCloses
<1>7. \A y \in Joins \ {j} : phase'[y] = phase[y] /\ joinRoom'[y] = joinRoom[y]
  BY <1>1, <1>3 DEF JoinsInv
<1>8. CASE Becomes(m)
  BY <1>2, <1>5, <1>6, <1>7, <1>8 DEF Becomes
<1>9. CASE ~Refused(m, x, p, r) /\ Becomes(c)
  <2> HIDE DEF o
  <2>1. /\ c.rooms = n.rooms /\ c.members[o] # << >>
        /\ \A y \in Joins \ {o} : c.members[y] = n.members[y]
    BY <1>2, <1>4, <1>9, CompleteGood
  <2> HIDE DEF c
  <2>2. rooms' = n.rooms /\ members' = c.members
    BY <1>9, <2>1 DEF Becomes
  <2>3. q # r
    BY <1>5, <2>1, <2>2 DEF o
  <2>4. rooms'[q] = rooms[q]
    BY <1>4, <1>9, <2>2, <2>3
  <2>5. rooms'[q] \in Joins \ {o}
    BY <1>4, <1>5, <1>9, <2>1, <2>2 DEF GoodNodes, Nodes, Objects
  <2>6. members[rooms[q]] = << >>
    BY <1>4, <1>5, <1>9, <2>1, <2>2, <2>4, <2>5
  <2>7. QED
    BY <1>6, <1>7, <2>4, <2>6
<1>10. CASE /\ ~Refused(m, x, p, r) /\ Becomes(n) /\ phase' = [phase EXCEPT ![j] = "load"]
            /\ joinRoom' = [joinRoom EXCEPT ![j] = o]
  <2>1. rooms' = n.rooms /\ members' = members
    BY <1>4, <1>10 DEF Becomes
  <2>2. CASE q = r
    BY <1>1, <1>10, <2>1, <2>2 DEF JoinsInv
  <2>3. CASE q # r
    BY <1>4, <1>5, <1>6, <1>7, <1>10, <2>1, <2>3
  <2>4. QED
    BY <2>2, <2>3
<1>11. QED
  BY <1>3, <1>8, <1>9, <1>10

LEMMA JoinArrivesLife ==
  ASSUME LifecycleAssumption, LifeInv, NEW j \in Joins, JoinArrives(j)
  PROVE  LifeInv' /\ EmptyKept
<1>1. phase[j] = "idle" /\ UNCHANGED matchVars
  BY DEF JoinArrives
<1>2. CASE Preloaded
  BY <1>1, <1>2, EnterLife, EnterEmpty DEF JoinArrives
<1>3. CASE ~Preloaded
  <2>1. phase' = [phase EXCEPT ![j] = "code"] /\ UNCHANGED <<joinUser, joinRoom, nodeVars>>
    BY <1>3 DEF JoinArrives
  <2>2. Node' = Node /\ roomId' = roomId /\ roomMap' = roomMap /\ user2room' = user2room
    BY <1>1, <2>1 DEF Node, nodeVars, matchVars
  <2>3. JoinsInv'
    BY <1>1, <2>1, <2>2 DEF LifeInv, JoinsInv
  <2>4. EmptyKept
    <3>1. rooms' = rooms /\ members' = members /\ joinRoom' = joinRoom
      BY <2>1 DEF nodeVars
    <3>2. \A y \in Joins : phase[y] = "load" => phase'[y] = "load"
      BY <1>1, <2>1 DEF LifeInv, JoinsInv
    <3>3. QED
      BY <3>1, <3>2 DEF EmptyKept, EmptyRoomCloses
  <2>5. QED
    BY <2>2, <2>3, <2>4 DEF LifeInv
<1>4. QED
  BY <1>2, <1>3

LEMMA DataLoadedLife ==
  ASSUME LifecycleAssumption, LifeInv, NEW j \in Joins, DataLoaded(j)
  PROVE  LifeInv' /\ EmptyKept
<1> DEFINE c == Complete(Node, j, joinUser[j], joinRoom[j])
<1>1. /\ phase[j] = "load" /\ Becomes(c) /\ phase' = [phase EXCEPT ![j] = "done"]
      /\ UNCHANGED <<joinUser, joinRoom>> /\ roomMap' = roomMap /\ user2room' = user2room
  BY DEF DataLoaded, matchVars
<1>2. /\ joinUser[j] \in Joins /\ joinRoom[j] \in Joins
      /\ Node.roomId[joinRoom[j]] # NoRoom
  BY <1>1, NodeIs DEF LifeInv, JoinsInv
<1>3. /\ c \in GoodNodes(roomMap) /\ c.roomId = roomId /\ c.rooms = rooms
      /\ c.members[joinRoom[j]] # << >>
      /\ \A q \in Joins \ {joinRoom[j]} : c.members[q] = members[q]
  <2> DEFINE k == Complete(Node, j, joinUser[j], joinRoom[j])
  <2>1. Node \in GoodNodes(roomMap)
    BY NodeGood
  <2> HIDE DEF k
  <2>2. /\ k \in GoodNodes(roomMap) /\ k.roomId = Node.roomId /\ k.rooms = Node.rooms
        /\ k.members[joinRoom[j]] # << >>
        /\ \A q \in Joins \ {joinRoom[j]} : k.members[q] = Node.members[q]
    BY <1>2, <2>1, CompleteGood DEF k
  <2>3. Node.roomId = roomId /\ Node.rooms = rooms /\ Node.members = members
    BY NodeIs
  <2>4. QED
    BY <2>2, <2>3 DEF k
<1> HIDE DEF c
<1>4. (Node \in GoodNodes(roomMap))' /\ roomId' = roomId
  BY <1>1, <1>3, BecomesGood
<1>5. JoinsInv'
  BY <1>1, <1>4 DEF LifeInv, JoinsInv
<1>6. ASSUME EmptyRoomCloses, NEW r \in Rooms, rooms'[r] # 0, members'[rooms'[r]] = << >>
      PROVE  \E y \in Joins : phase'[y] = "load" /\ joinRoom'[y] = rooms'[r]
  <2>1. rooms' = rooms /\ members' = c.members
    BY <1>1, <1>3 DEF Becomes
  <2>2. rooms[r] \in Joins
    BY <1>6, <2>1, NodeGood, NodeIs DEF Nodes, Objects
  <2>3. rooms[r] # joinRoom[j] /\ members[rooms[r]] = << >>
    BY <1>3, <1>6, <2>1, <2>2
  <2>4. PICK y \in Joins : phase[y] = "load" /\ joinRoom[y] = rooms[r]
    BY <1>6, <2>1, <2>3 DEF EmptyRoomCloses
  <2>5. y # j /\ phase'[y] = "load" /\ joinRoom'[y] = joinRoom[y]
    BY <1>1, <2>3, <2>4 DEF LifeInv, JoinsInv
  <2>6. QED
    BY <2>1, <2>4, <2>5
<1>7. QED
  BY <1>4, <1>5, <1>6 DEF LifeInv, EmptyKept, EmptyRoomCloses

LEMMA LoadFailsLife ==
  ASSUME LifecycleAssumption, LifeInv, NEW j \in Joins, LoadFails(j)
  PROVE  LifeInv' /\ (phase[j] # "load" => EmptyKept)
<1>1. /\ phase' = [phase EXCEPT ![j] = "done"] /\ UNCHANGED <<joinUser, joinRoom, nodeVars>>
      /\ roomMap' = roomMap /\ user2room' = user2room
  BY DEF LoadFails, matchVars
<1>2. Node' = Node /\ roomId' = roomId
  BY <1>1 DEF Node, nodeVars
<1>3. JoinsInv'
  BY <1>1, <1>2 DEF LifeInv, JoinsInv
<1>4. ASSUME phase[j] # "load" PROVE EmptyKept
  <2>1. rooms' = rooms /\ members' = members /\ joinRoom' = joinRoom
    BY <1>1 DEF nodeVars
  <2>2. \A y \in Joins : phase[y] = "load" => phase'[y] = "load"
    BY <1>1, <1>4 DEF LifeInv, JoinsInv
  <2>3. QED
    BY <2>1, <2>2 DEF EmptyKept, EmptyRoomCloses
<1>5. QED
  BY <1>1, <1>2, <1>3, <1>4 DEF LifeInv

LEMMA SetSockIs ==
  ASSUME NEW n \in Nodes, NEW s \in Socks, NEW v \in {"closing", "closed"}
  PROVE  LET k == [n EXCEPT !.sock[s] = v]
         IN k \in Nodes /\ SameRooms(k, n) /\ SameTalk(k, n) /\ k.users = n.users
<1> DEFINE w == [n.sock EXCEPT ![s] = v]
           k == [n EXCEPT !.sock = w]
<1>1. /\ w \in [Socks -> {"open", "closing", "closed"}]
      /\ \A t \in Socks : w[t] = "open" => n.sock[t] = "open"
  BY DEF Nodes
<1> HIDE DEF w
<1>2. k \in Nodes /\ SameRooms(k, n) /\ SameTalk(k, n) /\ k.users = n.users
  BY <1>1 DEF Nodes, SameRooms, SameTalk
<1>3. [n EXCEPT !.sock[s] = v] = k
  BY DEF w
<1>4. QED
  BY <1>2, <1>3

LEMMA SetTimerIs ==
  ASSUME NEW n \in Nodes, NEW x \in Joins
  PROVE  LET k == [n EXCEPT !.timer[x] = FALSE]
         IN k \in Nodes /\ SameRooms(k, n) /\ SameTalk(k, n) /\ k.users = n.users
<1> DEFINE w == [n.timer EXCEPT ![x] = FALSE]
           k == [n EXCEPT !.timer = w]
<1>1. w \in [Joins -> BOOLEAN]
  BY DEF Nodes
<1> HIDE DEF w
<1>2. k \in Nodes /\ SameRooms(k, n) /\ SameTalk(k, n) /\ k.users = n.users
  BY <1>1 DEF Nodes, SameRooms, SameTalk
<1>3. [n EXCEPT !.timer[x] = FALSE] = k
  BY DEF w
<1>4. QED
  BY <1>2, <1>3

LEMMA SetSentIs ==
  ASSUME NEW n \in Nodes, NEW o \in Joins, NEW v \in 0..Len(Says)
  PROVE  LET k == [n EXCEPT !.sent[o] = v]
         IN k \in Nodes /\ SameRooms(k, n) /\ k.users = n.users
<1> DEFINE w == [n.sent EXCEPT ![o] = v]
           k == [n EXCEPT !.sent = w]
<1>1. w \in [Joins -> 0..Len(Says)]
  BY DEF Nodes
<1> HIDE DEF w
<1>2. k \in Nodes /\ SameRooms(k, n) /\ k.users = n.users
  BY <1>1 DEF Nodes, SameRooms
<1>3. [n EXCEPT !.sent[o] = v] = k
  BY DEF w
<1>4. QED
  BY <1>2, <1>3

LEMMA SameRoomsStay ==
  ASSUME NEW K, NEW n \in GoodNodes(K), NEW k \in Nodes, SameRooms(k, n), k.users = n.users
  PROVE  /\ k \in GoodNodes(K) /\ Keeps(k, n) /\ EmptiesNone(k, n)
         /\ SameTalk(k, n) => Closes(k, n)
BY SameRoomsGood DEF OwnUsers

LEMMA SocketEventLife ==
  ASSUME LifecycleAssumption, LifeInv, NEW s \in Socks,
         NEW how \in {"closing", "closed"}, SocketEvent(s, how)
  PROVE  LifeInv' /\ EmptyKept /\ HeardKept /\ TellKept
<1> DEFINE a == [Node EXCEPT !.sock[s] = how]
           k == DisconnectAll(a, listeners[s])
<1>1. Becomes(k) /\ UNCHANGED <<matchVars, joinVars>>
  BY DEF SocketEvent
<1>2. /\ Node \in GoodNodes(roomMap) /\ Node \in Nodes
      /\ listeners[s] \in Seq(Joins)
  BY NodeGood, NodeIs DEF Nodes
<1>3. a \in GoodNodes(roomMap) /\ Closes(a, Node)
  <2>1. a \in Nodes /\ SameRooms(a, Node) /\ SameTalk(a, Node) /\ a.users = Node.users
    BY <1>2, SetSockIs
  <2> HIDE DEF a
  <2>2. QED
    BY <1>2, <2>1, SameRoomsStay
<1> HIDE DEF a
<1>4. k \in GoodNodes(roomMap) /\ Closes(k, a)
  BY <1>2, <1>3, DisconnectAllGood
<1> HIDE DEF k
<1>5. Closes(k, Node)
  BY <1>2, <1>3, <1>4, ClosesTwice DEF GoodNodes
<1>6. QED
  BY <1>1, <1>4, <1>5, ClosesStep

LEMMA PeerClosesLife ==
  ASSUME LifecycleAssumption, LifeInv, NEW s \in Socks, PeerCloses(s)
  PROVE  LifeInv' /\ EmptyKept /\ HeardKept /\ TellKept
<1> DEFINE a == [Node EXCEPT !.sock[s] = "closing"]
<1>1. Becomes(a) /\ UNCHANGED <<matchVars, joinVars>>
  BY DEF PeerCloses
<1>2. Node \in GoodNodes(roomMap) /\ Node \in Nodes /\ Node.roomId = roomId
  BY NodeGood
<1>3. a \in Nodes /\ SameRooms(a, Node) /\ SameTalk(a, Node) /\ a.users = Node.users
  BY <1>2, SetSockIs
<1> HIDE DEF a
<1>4. a \in GoodNodes(roomMap) /\ Closes(a, Node)
  BY <1>2, <1>3, SameRoomsStay
<1>5. QED
  BY <1>1, <1>4, ClosesStep

LEMMA HeartTimeoutLife ==
  ASSUME LifecycleAssumption, LifeInv, NEW x \in Joins, HeartTimeout(x)
  PROVE  LifeInv' /\ EmptyKept /\ HeardKept /\ TellKept
<1> DEFINE d == DoLogout(Node, x)
           a == [d EXCEPT !.timer[x] = FALSE]
<1>1. Becomes(a) /\ UNCHANGED <<matchVars, joinVars>>
  BY DEF HeartTimeout
<1>2. Node \in GoodNodes(roomMap) /\ Node.roomId = roomId
  BY NodeGood
<1>3. d \in GoodNodes(roomMap) /\ Closes(d, Node)
  BY <1>2, DoLogoutGood
<1> HIDE DEF d
<1>4. a \in Nodes /\ SameRooms(a, d) /\ SameTalk(a, d) /\ a.users = d.users
  BY <1>3, SetTimerIs DEF GoodNodes
<1> HIDE DEF a
<1>5. a \in GoodNodes(roomMap) /\ Closes(a, d)
  BY <1>3, <1>4, SameRoomsStay
<1>6. Closes(a, Node)
  BY <1>2, <1>3, <1>5, ClosesTwice DEF GoodNodes
<1>7. QED
  BY <1>1, <1>5, <1>6, ClosesStep

LEMMA HeartStopsLife ==
  ASSUME LifecycleAssumption, LifeInv, NEW x \in Joins, HeartStops(x)
  PROVE  LifeInv' /\ EmptyKept /\ HeardKept /\ TellKept
<1> DEFINE a == [Node EXCEPT !.timer[x] = FALSE]
<1>1. Becomes(a) /\ UNCHANGED <<matchVars, joinVars>>
  BY DEF HeartStops
<1>2. Node \in GoodNodes(roomMap) /\ Node \in Nodes /\ Node.roomId = roomId
  BY NodeGood
<1>3. a \in Nodes /\ SameRooms(a, Node) /\ SameTalk(a, Node) /\ a.users = Node.users
  BY <1>2, SetTimerIs
<1> HIDE DEF a
<1>4. a \in GoodNodes(roomMap) /\ Closes(a, Node)
  BY <1>2, <1>3, SameRoomsStay
<1>5. QED
  BY <1>1, <1>4, ClosesStep

\* LeaveRequest and Matched.
LEMMA LeavesLife ==
  ASSUME LifecycleAssumption, LifeInv, NEW x \in Joins, NEW p \in Players,
         Becomes(LeaveRoom(Node, userRoom[x], p)), UNCHANGED <<matchVars, joinVars>>
  PROVE  LifeInv' /\ EmptyKept /\ HeardKept /\ TellKept
<1> DEFINE k == LeaveRoom(Node, userRoom[x], p)
<1>1. Node \in GoodNodes(roomMap) /\ Node \in Nodes /\ Node.roomId = roomId
  BY NodeGood
<1>2. userRoom[x] \in Rooms \cup {NoRoom}
  BY <1>1, NodeIs DEF Nodes
<1>3. k \in GoodNodes(roomMap) /\ Closes(k, Node)
  BY <1>1, <1>2, LeaveRoomGood
<1> HIDE DEF k
<1>4. Becomes(k)
  BY DEF k
<1>5. QED
  BY <1>3, <1>4, ClosesStep

LEMMA GameClosesLife ==
  ASSUME LifecycleAssumption, LifeInv, NEW r \in Rooms, GameCloses(r)
  PROVE  LifeInv' /\ EmptyKept /\ HeardKept /\ TellKept
<1> DEFINE k == CloseRoom(Node, r)
<1>1. Becomes(k) /\ UNCHANGED <<matchVars, joinVars>>
  BY DEF GameCloses
<1>2. k \in GoodNodes(roomMap) /\ Closes(k, Node)
  BY NodeGood, CloseRoomGood
<1> HIDE DEF k
<1>3. QED
  BY <1>1, <1>2, ClosesStep

LEMMA SaidText ==
  ASSUME LifecycleAssumption, NEW i \in DOMAIN Says
  PROVE  i \in 0..Len(Says) /\ Message(i, Says[i].to, Says[i].live) \in Texts
<1> DEFINE R == [to : Seq(Players), live : BOOLEAN]
<1>1. Says \in Seq(R)
  BY DEF LifecycleAssumption
<1> HIDE DEF R
<1>2. i \in 1..Len(Says) /\ Len(Says) \in Nat /\ Says[i] \in R
  BY <1>1
<1>3. QED
  BY <1>2 DEF R, Texts, Message

LEMMA GameSendsLife ==
  ASSUME LifecycleAssumption, LifeInv, NEW o \in Joins, GameSends(o)
  PROVE  LifeInv' /\ EmptyKept
<1> DEFINE i == sent[o] + 1
           m == Message(i, Says[i].to, Says[i].live)
           l == RoomSend(Node, o, m)
           k == [l EXCEPT !.sent[o] = i]
<1>1. i \in DOMAIN Says /\ Becomes(k) /\ UNCHANGED <<matchVars, joinVars>>
  BY DEF GameSends
<1>2. Node \in GoodNodes(roomMap) /\ Node.roomId = roomId
  BY NodeGood
<1>3. i \in 0..Len(Says) /\ m \in Texts
  BY <1>1, SaidText
<1> HIDE DEF i, m
<1>4. l \in GoodNodes(roomMap) /\ SameRooms(l, Node) /\ l.users = Node.users
  BY <1>2, <1>3, RoomSendGood
<1> HIDE DEF l
<1>5. k \in Nodes /\ SameRooms(k, l) /\ k.users = l.users
  BY <1>3, <1>4, SetSentIs DEF GoodNodes
<1> HIDE DEF k
<1>6. k \in GoodNodes(roomMap) /\ Keeps(k, Node) /\ EmptiesNone(k, Node)
  <2>1. SameRooms(k, Node) /\ k.users = Node.users
    BY <1>4, <1>5 DEF SameRooms
  <2>2. QED
    BY <1>2, <1>5, <2>1, SameRoomsStay
<1>7. QED
  BY <1>1, <1>6, NodeStep

\* The player's data cannot be had, and the join ends after it has made a room.
DataFails == \E j \in Joins : phase[j] = "load" /\ LoadFails(j)

LEMMA LifeNext ==
  ASSUME LifecycleAssumption, LifeInv, [Next]_vars
  PROVE  LifeInv' /\ (~DataFails => EmptyKept)
<1> DEFINE Kept == LifeInv' /\ (~DataFails => EmptyKept)
<1>1. ASSUME NEW r \in Rooms, Appoint(r) PROVE Kept
  BY <1>1, AppointLife
<1>2. ASSUME NEW r \in Rooms, GameCloses(r) PROVE Kept
  BY <1>2, GameClosesLife
<1>3. ASSUME NEW j \in Joins, JoinArrives(j) PROVE Kept
  BY <1>3, JoinArrivesLife
<1>4. ASSUME NEW j \in Joins, CodeLoaded(j) PROVE Kept
  BY <1>4, EnterLife, EnterEmpty DEF CodeLoaded
<1>5. ASSUME NEW j \in Joins, DataLoaded(j) PROVE Kept
  BY <1>5, DataLoadedLife
<1>6. ASSUME NEW j \in Joins, LoadFails(j) PROVE Kept
  BY <1>6, LoadFailsLife DEF DataFails
<1>7. ASSUME NEW s \in Socks, SocketCloses(s) PROVE Kept
  BY <1>7, SocketEventLife DEF SocketCloses
<1>8. ASSUME NEW s \in Socks, SocketFails(s) PROVE Kept
  BY <1>8, SocketEventLife DEF SocketFails
<1>9. ASSUME NEW s \in Socks, PeerCloses(s) PROVE Kept
  BY <1>9, PeerClosesLife
<1>10. ASSUME NEW x \in Joins, HeartTimeout(x) PROVE Kept
  BY <1>10, HeartTimeoutLife
<1>11. ASSUME NEW x \in Joins, HeartStops(x) PROVE Kept
  BY <1>11, HeartStopsLife
<1>12. ASSUME NEW x \in Joins, LeaveRequest(x) PROVE Kept
  BY <1>12, PlayerOf, LeavesLife DEF LeaveRequest
<1>13. ASSUME NEW p \in Players, Matched(p) PROVE Kept
  <2>1. users[p] \in Joins
    BY <1>13, NodeGood, NodeIs DEF Matched, Nodes, Objects
  <2>2. QED
    BY <1>13, <2>1, LeavesLife DEF Matched
<1>14. ASSUME NEW o \in Joins, GameSends(o) PROVE Kept
  BY <1>14, GameSendsLife
<1>15. CASE UNCHANGED vars
  <2>1. /\ Node' = Node /\ roomId' = roomId /\ roomMap' = roomMap /\ user2room' = user2room
        /\ UNCHANGED <<phase, joinUser, joinRoom>>
    BY <1>15 DEF vars, Node, nodeVars, matchVars, joinVars
  <2>2. QED
    BY <1>15, <2>1 DEF LifeInv, JoinsInv, EmptyRoomCloses, EmptyKept, vars, nodeVars
<1>16. QED
  BY <1>1, <1>2, <1>3, <1>4, <1>5, <1>6, <1>7, <1>8, <1>9, <1>10, <1>11, <1>12, <1>13,
     <1>14, <1>15 DEF Next

LEMMA LifeAlways == Spec => []LifeInv
<1>1. Init => LifeInv
  BY LifecycleAssumption, LifeInit
<1>2. LifeInv /\ [Next]_vars => LifeInv'
  BY LifecycleAssumption, LifeNext
<1>3. QED
  BY <1>1, <1>2, PTL DEF Spec

\* Every variable keeps its type, User and Room objects are filed under their own player
\* and room id, and a room that was closed is no logic room any more.
THEOREM TypeCorrect == Spec => []TypeOK
<1>1. LifeInv => TypeOK
  <2> SUFFICES ASSUME LifeInv PROVE TypeOK
    OBVIOUS
  <2>1. /\ Node \in Nodes /\ FiledInv(Node) /\ OnceInv(Node) /\ KnownInv(Node, roomMap)
        /\ JoinsInv
    BY DEF LifeInv, GoodNodes
  <2>2. /\ logicRooms \subseteq Rooms /\ closed \subseteq Rooms /\ logicUsers \subseteq Players
        /\ sock \in [Socks -> {"open", "closing", "closed"}]
        /\ listeners \in [Socks -> Seq(Joins)] /\ users \in [Players -> Objects]
        /\ userSock \in [Joins -> Socks \cup {NoSock}]
        /\ userRoom \in [Joins -> Rooms \cup {NoRoom}]
        /\ userState \in [Joins -> {"init", "entered", "disconnect"}]
        /\ timer \in [Joins -> BOOLEAN] /\ talked \in [Joins -> BOOLEAN]
    BY <2>1, NodeIs DEF Nodes
  <2>3. /\ rooms \in [Rooms -> Objects] /\ roomId \in [Joins -> Rooms \cup {NoRoom}]
        /\ isLogic \in [Joins -> BOOLEAN] /\ started \in [Joins -> BOOLEAN]
        /\ \A o \in Joins : members[o] \in Seq(Players) /\ visitors[o] \in Seq(Players)
        /\ sent \in [Joins -> 0..Len(Says)] /\ early \in [Joins -> 0..Len(Says)]
    BY <2>1, NodeIs DEF Nodes
  <2>4. /\ \A p \in Players : users[p] # 0 => Player(users[p]) = p
        /\ \A r \in Rooms : rooms[r] # 0 => roomId[rooms[r]] = r
        /\ closed \cap logicRooms = {}
    BY <2>1, <2>2, NodeIs DEF FiledInv, OnceInv
  <2>5. user2room \in [Players -> Rooms \cup {NoRoom}]
    BY <2>1 DEF JoinsInv
  <2>6. QED
    BY <2>1, <2>2, <2>3, <2>4, <2>5 DEF TypeOK, JoinsInv
<1>2. QED
  BY <1>1, LifeAlways, PTL

\* The players of a room are saved at most once, however often the room is closed or
\* entered again.
THEOREM SavedOnce == Spec => []SavedAtMostOnce
<1>1. LifeInv => SavedAtMostOnce
  BY NodeIs DEF LifeInv, GoodNodes, OnceInv, SavedAtMostOnce
<1>2. QED
  BY <1>1, LifeAlways, PTL

\* What is saved of a room that had started covers every player it was appointed for.
THEOREM StartedSavesAll == Spec => []StartedRoomSavesAll
<1>1. LifeInv => StartedRoomSavesAll
  <2> SUFFICES ASSUME LifeInv, NEW r \in Rooms, NEW i \in DOMAIN saves[r],
                      saves[r][i].started
               PROVE  Expect[r] \subseteq ToSet(saves[r][i].list)
    BY DEF StartedRoomSavesAll
  <2>1. CompleteInv(Node) /\ Node \in Nodes
    BY DEF LifeInv, GoodNodes
  <2>2. saves[r] \in Seq(Saves)
    BY <2>1, NodeIs DEF Nodes
  <2>3. i \in 1..Len(saves[r])
    BY <2>2
  <2>4. QED
    BY <2>1, <2>3, NodeIs DEF CompleteInv
<1>2. QED
  BY <1>1, LifeAlways, PTL

\* As long as no player's data fails to be loaded, a room nobody is in, or is about to be
\* in, is closed (EmptyRoomCloses), whichever of leaving, disconnecting, matching, heart
\* time-outs and the game's own closing empties it.
THEOREM EmptyCloses == Spec /\ [][~DataFails]_vars => []EmptyRoomCloses
<1>1. Init => EmptyRoomCloses
  BY DEF Init, EmptyRoomCloses
<1>2. LifeInv /\ EmptyRoomCloses /\ [Next]_vars /\ [~DataFails]_vars => EmptyRoomCloses'
  <2>1. UNCHANGED vars /\ EmptyRoomCloses => EmptyRoomCloses'
    BY DEF vars, joinVars, nodeVars, EmptyRoomCloses
  <2>2. LifeInv /\ [Next]_vars /\ ~DataFails => EmptyKept
    BY LifecycleAssumption, LifeNext
  <2>3. QED
    BY <2>1, <2>2 DEF EmptyKept
<1>3. QED
  BY <1>1, <1>2, LifeAlways, PTL DEF Spec

\* With the game's code and the players' data in memory no join ever waits.
NoneWaits == phase \in [Joins -> {"idle", "done"}]

LEMMA NoneWaitsAlways == ASSUME Preloaded PROVE Spec => []NoneWaits
<1>1. Init => NoneWaits
  BY DEF Init, NoneWaits
<1>2. NoneWaits /\ [Next]_vars => NoneWaits'
  <2> SUFFICES ASSUME NoneWaits, [Next]_vars PROVE NoneWaits'
    OBVIOUS
  <2>1. ASSUME phase' = phase PROVE NoneWaits'
    BY <2>1 DEF NoneWaits
  <2>2. ASSUME NEW j \in Joins, phase' = [phase EXCEPT ![j] = "done"] PROVE NoneWaits'
    BY <2>2 DEF NoneWaits
  <2>3. ASSUME NEW r \in Rooms, Appoint(r) \/ GameCloses(r) PROVE NoneWaits'
    BY <2>1, <2>3 DEF Appoint, GameCloses, joinVars
  <2>4. ASSUME NEW j \in Joins, JoinArrives(j) PROVE NoneWaits'
    <3>1. Enter(j)
      BY <2>4 DEF JoinArrives
    <3>2. phase' = [phase EXCEPT ![j] = "done"]
      BY <3>1 DEF Enter
    <3>3. QED
      BY <2>2, <3>2
  <2>5. ASSUME NEW j \in Joins, CodeLoaded(j) \/ DataLoaded(j) \/ LoadFails(j)
        PROVE  NoneWaits'
    BY <2>5 DEF CodeLoaded, DataLoaded, LoadFails, NoneWaits
  <2>6. ASSUME NEW s \in Socks, SocketCloses(s) \/ SocketFails(s) \/ PeerCloses(s)
        PROVE  NoneWaits'
    BY <2>1, <2>6 DEF SocketCloses, SocketFails, SocketEvent, PeerCloses, joinVars
  <2>7. ASSUME NEW x \in Joins, HeartTimeout(x) \/ HeartStops(x) \/ LeaveRequest(x)
        PROVE  NoneWaits'
    BY <2>1, <2>7 DEF HeartTimeout, HeartStops, LeaveRequest, joinVars
  <2>8. ASSUME NEW p \in Players, Matched(p) PROVE NoneWaits'
    BY <2>1, <2>8 DEF Matched, joinVars
  <2>9. ASSUME NEW o \in Joins, GameSends(o) PROVE NoneWaits'
    BY <2>1, <2>9 DEF GameSends, joinVars
  <2>10. CASE UNCHANGED vars
    BY <2>1, <2>10 DEF vars, joinVars
  <2>11. QED
    BY <2>3, <2>4, <2>5, <2>6, <2>7, <2>8, <2>9, <2>10 DEF Next
<1>3. QED
  BY <1>1, <1>2, PTL DEF Spec

\* Then there is nothing that can fail, and an open room always has somebody in it.
THEOREM PreloadedEmptyCloses == ASSUME Preloaded PROVE Spec => []EmptyRoomCloses
<1>1. NoneWaits => ~DataFails
  BY DEF NoneWaits, DataFails
<1>2. []NoneWaits => [][~DataFails]_vars
  BY <1>1, PTL
<1>3. QED
  BY <1>2, NoneWaitsAlways, EmptyCloses, PTL

-----------------------------------------------------------------------------
(* The order in which the players hear a game's messages.                  *)

\* The game names nobody twice in a message.
SaysOnce == \A i \in DOMAIN Says : Says[i].live \/ Distinct(Says[i].to)

LEMMA HeardInit == ASSUME Init PROVE HeardInv(Node)
<1>1. /\ \A x \in Joins : userSock[x] = NoSock /\ members[x] = << >> /\ pending[x] = << >>
      /\ \A s \in Socks : inbox[s] = << >>
      /\ Len(<< >>) = 0
  BY DEF Init
<1>2. OwnSocks(Node)
  BY <1>1, NodeIs DEF OwnSocks
<1>3. SeatsOnce(Node) /\ WaitInv(Node)
  BY <1>1, NodeIs DEF SeatsOnce, WaitInv, InTurns, Distinct
<1>4. BoxInv(Node) /\ OrderInv(Node)
  BY <1>1, NodeIs DEF BoxInv, OrderInv, HeardOnce
<1>5. QED
  BY <1>2, <1>3, <1>4 DEF HeardInv

LEMMA AppointHeard ==
  ASSUME LifecycleAssumption, LifeInv, NEW r \in Rooms, Appoint(r)
  PROVE  HeardKept
<1>1. UNCHANGED <<userSock, members, started, sent, pending, inbox>>
  BY DEF Appoint, Becomes, SetWorkTypes, Node
<1> DEFINE k == SetWorkTypes(Node, r)
<1>2. Node \in Nodes /\ Node' \in Nodes
  BY NodeGood, AppointLife DEF LifeInv, GoodNodes
<1>3. Hushed(Node', Node)
  BY <1>1 DEF Node, Hushed
<1>4. StillHeard(Node', Node)
  BY <1>2, <1>3, HushedHeard
<1>5. QED
  BY <1>4 DEF StillHeard, HeardKept

\* Game.enter refuses a player who is in the room.
LEMMA EnterHeard ==
  ASSUME LifecycleAssumption, LifeInv, Preloaded, NEW j \in Joins,
         phase[j] \in {"idle", "code"}, Enter(j), UNCHANGED matchVars
  PROVE  HeardKept
<1> DEFINE p == Player(j)
           r == user2room[p]
           m == WithUser(Node, j)
           x == m.users[p]
           n == WithRoom(m, j, r)
           o == n.rooms[r]
           c == Complete(n, j, x, o)
<1>1. /\ Node \in GoodNodes(roomMap) /\ JoinsInv /\ p \in Players /\ roomId[j] = NoRoom
  BY NodeGood, PlayerOf DEF LifeInv, JoinsInv
<1>2. m \in GoodNodes(roomMap) /\ m \in Nodes /\ m.roomId = roomId /\ x \in Joins
  BY <1>1, WithUserGood, NodeIs DEF SameRooms, GoodNodes
<1>3. Becomes(m) \/ (~Refused(m, x, p, r) /\ Becomes(c))
  BY DEF Enter
<1>4. SUFFICES ASSUME HeardInv(Node) PROVE HeardInv(Node')
  BY DEF HeardKept
<1>5. HeardInv(m)
  BY <1>1, <1>4, WithUserHeard
<1> HIDE DEF m, p
<1>6. CASE Becomes(m)
  BY <1>2, <1>5, <1>6, BecomesIs
<1>7. CASE ~Refused(m, x, p, r) /\ Becomes(c)
  <2>1. r # NoRoom
    BY <1>7 DEF Refused
  <2>2. r \in roomMap /\ r \in Rooms
    BY <1>1, <2>1 DEF JoinsInv
  <2>3. m.roomId[j] = NoRoom
    BY <1>1, <1>2
  <2>4. m.rooms[r] # 0 =>
          n = m /\ \A i \in DOMAIN m.members[m.rooms[r]] : m.members[m.rooms[r]][i] # p
    BY <1>7 DEF Refused, WithRoom
  <2> HIDE DEF r, x
  <2>5. /\ n \in GoodNodes(roomMap) /\ o \in Joins /\ n.roomId[o] = r
        /\ n.members = m.members /\ Hushed(n, m)
        /\ n.rooms[r] = m.rooms[r] \/ n.rooms[r] = j
    BY <1>2, <2>2, <2>3, WithRoomGood
  <2>6. n \in Nodes /\ HeardInv(n)
    BY <1>2, <1>5, <2>5, HushedHeard DEF GoodNodes, StillHeard
  <2>7. \A i \in 1..Len(n.members[o]) : n.members[o][i] # p
    <3>1. m.members[o] \in Seq(Players)
      BY <1>2, <2>5 DEF Nodes
    <3>2. CASE m.rooms[r] # 0
      <4>1. n = m /\ o = m.rooms[r]
        BY <2>4, <3>2
      <4>2. \A i \in DOMAIN m.members[m.rooms[r]] : m.members[m.rooms[r]][i] # p
        BY <2>4, <3>2
      <4> HIDE DEF n, o
      <4>3. QED
        BY <3>1, <4>1, <4>2
    <3>3. CASE m.rooms[r] = 0
      <4>1. o = j
        BY <2>5, <3>3, JoinNumbers
      <4>2. m.members[j] = << >>
        BY <1>2, <2>3 DEF GoodNodes, BlankInv
      <4>3. Len(n.members[o]) = 0
        BY <2>5, <4>1, <4>2
      <4>4. QED
        BY <4>3
    <3>4. QED
      BY <3>2, <3>3
  <2> HIDE DEF n, o
  <2>8. HeardInv(Arrived(n, j, x, o))
    BY <1>2, <2>5, <2>6, <2>7, ArrivedHeard DEF p
  <2>9. c \in GoodNodes(roomMap) /\ StillHeard(c, Arrived(n, j, x, o))
    <3>1. n.roomId[o] # NoRoom
      BY <2>1, <2>5
    <3>2. QED
      BY <1>2, <2>5, <3>1, CompleteGood
  <2> HIDE DEF c
  <2>10. HeardInv(c) /\ Node' = c
    BY <1>7, <2>8, <2>9, BecomesIs DEF StillHeard, GoodNodes
  <2>11. QED
    BY <2>10
<1>8. QED
  BY <1>3, <1>6, <1>7

\* A game's messages are numbered in the order it sends them.
LEMMA GameSendsHeard ==
  ASSUME LifecycleAssumption, LifeInv, SaysOnce, NEW o \in Joins, GameSends(o)
  PROVE  HeardKept
<1> DEFINE i == sent[o] + 1
           m == Message(i, Says[i].to, Says[i].live)
           l == RoomSend(Node, o, m)
           k == [l EXCEPT !.sent[o] = i]
<1>1. i \in DOMAIN Says /\ Becomes(k) /\ UNCHANGED <<matchVars, joinVars>>
  BY DEF GameSends
<1>2. Node \in GoodNodes(roomMap) /\ Node \in Nodes
  BY NodeGood
<1>3. SUFFICES ASSUME HeardInv(Node) PROVE HeardInv(Node')
  BY DEF HeardKept
<1>4. i \in 0..Len(Says) /\ m \in Texts /\ (m.live \/ Distinct(m.to)) /\ m.n = i
  <2>1. i \in 0..Len(Says) /\ m \in Texts
    BY <1>1, SaidText
  <2>2. QED
    BY <1>1, <2>1 DEF SaysOnce, Message
<1>5. Node.sent = sent /\ sent[o] \in Nat /\ sent \in [Joins -> 0..Len(Says)]
  BY <1>2, NodeIs DEF Nodes
<1>6. i > sent[o]
  BY <1>5
<1> HIDE DEF i, m
<1>7. /\ l \in GoodNodes(roomMap) /\ SameRooms(l, Node) /\ l.sent = sent
      /\ Takes(l, Node, o, m) /\ l.userSock = Node.userSock
  BY <1>2, <1>3, <1>4, <1>5, RoomSendGood, RoomSendTakes
<1> HIDE DEF l
<1>8. l \in Nodes
  BY <1>7 DEF GoodNodes
<1> DEFINE v == [l.sent EXCEPT ![o] = i]
<1>9. k = [l EXCEPT !.sent = v]
  OBVIOUS
<1>10. v[o] = i /\ (\A q \in Joins \ {o} : v[q] = sent[q]) /\ v \in [Joins -> 0..Len(Says)]
  BY <1>4, <1>5, <1>7
<1> HIDE DEF k, v
<1>11. /\ k \in Nodes /\ k.sent = v /\ k.pending = l.pending /\ k.inbox = l.inbox
       /\ k.userSock = l.userSock /\ k.members = l.members /\ k.started = l.started
  BY <1>8, <1>9, <1>10 DEF Nodes
<1>12. /\ k.members = Node.members /\ k.started = Node.started
       /\ Takes(k, Node, o, m)
  BY <1>7, <1>11 DEF SameRooms, Takes
<1>13. HeardInv(k)
  <2>1. /\ Node.sent[o] <= k.sent[o] /\ m.n <= k.sent[o] /\ (m.n > 0 => Node.sent[o] < m.n)
        /\ \A q \in Joins \ {o} : k.sent[q] = Node.sent[q]
    BY <1>4, <1>5, <1>6, <1>10, <1>11
  <2>2. k.userSock = Node.userSock
    BY <1>7, <1>11
  <2>3. QED
    BY <1>2, <1>3, <1>4, <1>11, <1>12, <2>1, <2>2, TakenHeard
<1>14. QED
  BY <1>1, <1>11, <1>13, BecomesIs

LEMMA HeardNext ==
  ASSUME LifecycleAssumption, Preloaded, SaysOnce, LifeInv, NoneWaits, [Next]_vars
  PROVE  HeardKept
<1>1. ASSUME NEW r \in Rooms, Appoint(r) PROVE HeardKept
  BY <1>1, AppointHeard
<1>2. ASSUME NEW r \in Rooms, GameCloses(r) PROVE HeardKept
  BY <1>2, GameClosesLife
<1>3. ASSUME NEW j \in Joins, JoinArrives(j) PROVE HeardKept
  BY <1>3, EnterHeard DEF JoinArrives
<1>4. ASSUME NEW j \in Joins, CodeLoaded(j) \/ DataLoaded(j) \/ LoadFails(j) PROVE FALSE
  BY <1>4 DEF CodeLoaded, DataLoaded, LoadFails, NoneWaits
<1>5. ASSUME NEW s \in Socks, SocketCloses(s) PROVE HeardKept
  BY <1>5, SocketEventLife DEF SocketCloses
<1>6. ASSUME NEW s \in Socks, SocketFails(s) PROVE HeardKept
  BY <1>6, SocketEventLife DEF SocketFails
<1>7. ASSUME NEW s \in Socks, PeerCloses(s) PROVE HeardKept
  BY <1>7, PeerClosesLife
<1>8. ASSUME NEW x \in Joins, HeartTimeout(x) PROVE HeardKept
  BY <1>8, HeartTimeoutLife
<1>9. ASSUME NEW x \in Joins, HeartStops(x) PROVE HeardKept
  BY <1>9, HeartStopsLife
<1>10. ASSUME NEW x \in Joins, LeaveRequest(x) PROVE HeardKept
  BY <1>10, PlayerOf, LeavesLife DEF LeaveRequest
<1>11. ASSUME NEW p \in Players, Matched(p) PROVE HeardKept
  <2>1. users[p] \in Joins
    BY <1>11, NodeGood, NodeIs DEF Matched, Nodes, Objects
  <2>2. QED
    BY <1>11, <2>1, LeavesLife DEF Matched
<1>12. ASSUME NEW o \in Joins, GameSends(o) PROVE HeardKept
  BY <1>12, GameSendsHeard
<1>13. CASE UNCHANGED vars
  <2>1. Node' = Node
    BY <1>13 DEF vars, Node, nodeVars
  <2>2. QED
    BY <2>1 DEF HeardKept
<1>14. QED
  BY <1>1, <1>2, <1>3, <1>4, <1>5, <1>6, <1>7, <1>8, <1>9, <1>10, <1>11, <1>12, <1>13
     DEF Next

\* A connection hears the messages of a game in the order they were sent and each one
\* once, those that waited for the room's start included, whatever leaves, closes or comes
\* back in between.  It takes that Game.enter finds the game's code and the player's data
\* in memory (a player whose two joins wait for them has two seats in the room, and hears
\* every broadcast twice), and that the game names nobody twice.
THEOREM HeardInTurn ==
  ASSUME Preloaded, SaysOnce
  PROVE  Spec => []HeardInOrder
<1>1. Init => HeardInv(Node)
  BY HeardInit
<1>2. LifeInv /\ NoneWaits /\ HeardInv(Node) /\ [Next]_vars => HeardInv(Node)'
  BY LifecycleAssumption, HeardNext DEF HeardKept
<1>3. LifeInv /\ HeardInv(Node) => HeardInOrder
  <2> SUFFICES ASSUME LifeInv, HeardInv(Node), NEW s \in Socks
               PROVE  \A i, k \in DOMAIN inbox[s] :
                        LET a == inbox[s][i]  b == inbox[s][k]
                        IN i < k /\ a.room = b.room /\ a.n > 0 /\ b.n > 0 => a.n < b.n
    BY DEF HeardInOrder
  <2>1. HeardOnce(inbox[s]) /\ inbox[s] \in Seq(Notes)
    BY NodeGood, NodeIs DEF HeardInv, OrderInv, Nodes
  <2>2. DOMAIN inbox[s] = 1..Len(inbox[s])
    BY <2>1
  <2>3. QED
    BY <2>1, <2>2 DEF HeardOnce
<1>4. QED
  BY <1>1, <1>2, <1>3, LifeAlways, NoneWaitsAlways, PTL DEF Spec

=============================================================================
