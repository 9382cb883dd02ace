-------------------------- MODULE ConnectionProofs --------------------------
(***************************************************************************)
(* More that is proved of RoomLifecycle: who has lost all connections is   *)
(* gone, and what is sent before the start of a room reaches everyone.     *)
(* The nodes, the invariants and the lemmas on handlers are those of       *)
(* RoomLifecycleProofs.                                                    *)
(***************************************************************************)
EXTENDS RoomLifecycleProofs

-----------------------------------------------------------------------------
(* Connections: what leaving and closing do to sockets and seats.          *)

\* A player is appointed for one room: what a late event of an old connection does to a
\* player who is in another room by then is not in question.
OneRoomEach == \A q, r \in Rooms : Expect[q] \cap Expect[r] # {} => q = r

Seated(n, p, r) == n.rooms[r] # 0 /\ p \in ToSet(n.members[n.rooms[r]])

\* Players are where they were appointed.
HomeInv(n) == \A p \in Players, r \in Rooms : Seated(n, p, r) => p \in Expect[r]

\* Some socket of the player is not open any more.
Hung(n, p) == \E s \in Socks : Owner[s] = p /\ n.sock[s] # "open"

SameSocks(k, n) ==
  k.listeners = n.listeners /\ k.sock = n.sock /\ k.userSock = n.userSock /\ k.timer = n.timer

\* Nobody sits down, and who stays has the same room as before.
Vacates(k, n) == \A p \in Players, r \in Rooms : Seated(k, p, r) =>
  /\ Seated(n, p, r)
  /\ OneRoomEach => \A x \in Joins : Player(x) = p => k.userRoom[x] = n.userRoom[x]

\* What is done to players and sockets by leaving and closing: sockets begin to close,
\* User objects lose their sockets, and players lose their User objects and seats, but a
\* player who has no User object any more has a socket that is not open either.
Parts(k, n) ==
  /\ k.listeners = n.listeners /\ k.timer = n.timer
  /\ \A s \in Socks : /\ k.sock[s] = "closed" <=> n.sock[s] = "closed"
                      /\ k.sock[s] = "open" => n.sock[s] = "open"
  /\ \A x \in Joins : \/ k.userSock[x] = n.userSock[x]
                      \/ k.userSock[x] = NoSock /\ k.sock[n.userSock[x]] # "open"
  /\ \A p \in Players : \/ /\ k.users[p] = n.users[p]
                           /\ k.users[p] # 0 =>
                                k.userSock[k.users[p]] = n.userSock[k.users[p]]
                        \/ k.users[p] = 0 /\ Hung(k, p)
  /\ SeatsOnce(n) => SeatsOnce(k)
  /\ Vacates(k, n)

LEMMA PartsSelf == ASSUME NEW n PROVE Parts(n, n)
BY DEF Parts, Vacates

LEMMA PartsTwice ==
  ASSUME LifecycleAssumption, NEW n \in Nodes, NEW k \in Nodes, NEW l \in Nodes,
         Parts(l, k), Parts(k, n)
  PROVE  Parts(l, n)
<1>1. l.listeners = n.listeners /\ l.timer = n.timer /\ (SeatsOnce(n) => SeatsOnce(l))
  BY DEF Parts
<1>2. ASSUME NEW s \in Socks
      PROVE  /\ l.sock[s] = "closed" <=> n.sock[s] = "closed"
             /\ l.sock[s] = "open" => n.sock[s] = "open"
             /\ l.sock[s] = "open" => k.sock[s] = "open"
  BY DEF Parts
<1>3. ASSUME NEW x \in Joins
      PROVE  \/ l.userSock[x] = n.userSock[x]
             \/ l.userSock[x] = NoSock /\ l.sock[n.userSock[x]] # "open"
  <2>1. CASE k.userSock[x] = n.userSock[x]
    BY <2>1 DEF Parts
  <2>2. CASE k.userSock[x] # n.userSock[x]
    <3>1. k.userSock[x] = NoSock /\ k.sock[n.userSock[x]] # "open"
      BY <2>2 DEF Parts
    <3>2. n.userSock[x] \in Socks
      BY <2>2, <3>1 DEF Nodes
    <3>3. l.sock[n.userSock[x]] # "open"
      BY <1>2, <3>1, <3>2
    <3>4. l.userSock[x] = NoSock
      BY <3>1 DEF Parts
    <3>5. QED
      BY <3>3, <3>4
  <2>3. QED
    BY <2>1, <2>2
<1>4. ASSUME NEW p \in Players
      PROVE  \/ /\ l.users[p] = n.users[p]
                /\ l.users[p] # 0 => l.userSock[l.users[p]] = n.userSock[l.users[p]]
             \/ l.users[p] = 0 /\ Hung(l, p)
  <2>1. Hung(k, p) => Hung(l, p)
    BY <1>2 DEF Hung
  <2>2. \/ l.users[p] = k.users[p] /\ (l.users[p] # 0 => l.userSock[l.users[p]] = k.userSock[l.users[p]])
        \/ l.users[p] = 0 /\ Hung(l, p)
    BY DEF Parts
  <2>3. \/ k.users[p] = n.users[p] /\ (k.users[p] # 0 => k.userSock[k.users[p]] = n.userSock[k.users[p]])
        \/ k.users[p] = 0 /\ Hung(k, p)
    BY DEF Parts
  <2>4. QED
    BY <2>1, <2>2, <2>3
<1>5. Vacates(l, n)
  BY DEF Parts, Vacates
<1>6. QED
  BY <1>1, <1>2, <1>3, <1>4, <1>5 DEF Parts

LEMMA OnCloseSocks ==
  ASSUME NEW n \in Nodes, NEW o \in Joins
  PROVE  LET k == OnClose(n, o)
         IN SameSocks(k, n) /\ k.users = n.users /\ k.userRoom = n.userRoom
BY DEF OnClose, SameSocks, Nodes

LEMMA LastLeavesSocks ==
  ASSUME NEW n \in Nodes, NEW r \in Rooms, NEW o \in Joins
  PROVE  LET k == LastLeaves(n, r, o)
         IN SameSocks(k, n) /\ k.userRoom = n.userRoom
BY DEF LastLeaves, FinishClose, DropRoles, OnClose, SameSocks, Nodes

LEMMA FinishCloseSocks ==
  ASSUME NEW n \in Nodes, NEW r \in Rooms, NEW o \in Joins
  PROVE  LET k == FinishClose(n, r, o)
         IN SameSocks(k, n) /\ k.userRoom = n.userRoom
BY DEF FinishClose, OnClose, SameSocks, Nodes

\* A player leaves a room.
LEMMA LeaveRoomParts ==
  ASSUME LifecycleAssumption, NEW K, NEW n \in GoodNodes(K),
         SeatsOnce(n), HomeInv(n),
         NEW r \in Rooms \cup {NoRoom}, NEW p \in Players
  PROVE  LET k == LeaveRoom(n, r, p)
         IN /\ SameSocks(k, n) /\ SeatsOnce(k) /\ Vacates(k, n)
            /\ r # NoRoom => ~Seated(k, p, r)
<1> DEFINE o    == IF r = NoRoom THEN 0 ELSE n.rooms[r]
           l    == RemoveFirst(n.members[o], p)
           out  == [n EXCEPT !.members[o] = RemoveFirst(@, p)]
           left == IF out.members[o] = << >> THEN LastLeaves(out, r, o) ELSE out
           end  == IF left.users[p] = 0 THEN left
                   ELSE [left EXCEPT !.userRoom[left.users[p]] = NoRoom]
<1>1. n \in Nodes
  BY DEF GoodNodes
<1>2. CASE o = 0 \/ \A i \in DOMAIN n.members[o] : n.members[o][i] # p
  <2>1. LeaveRoom(n, r, p) = n
    BY <1>2 DEF LeaveRoom
  <2>2. r # NoRoom => ~Seated(n, p, r)
    BY <1>2 DEF Seated, ToSet
  <2>3. QED
    BY <2>1, <2>2 DEF SameSocks, Vacates
<1>3. CASE ~(o = 0 \/ \A i \in DOMAIN n.members[o] : n.members[o][i] # p)
  <2>1. r \in Rooms /\ o = n.rooms[r] /\ o \in Joins /\ o # 0 /\ n.roomId[o] = r /\ r # NoRoom
    BY <1>1, <1>3 DEF GoodNodes, Nodes, Objects, FiledInv, LifecycleAssumption
  <2>2. LeaveRoom(n, r, p) = end
    BY <1>3, Zenon DEF LeaveRoom
  <2>3. out = SetMembers(n, o, l)
    BY DEF SetMembers
  <2>4. n.members[o] \in Seq(Players) /\ Distinct(n.members[o])
    BY <1>1, <2>1 DEF Nodes, SeatsOnce
  <2>5. /\ l \in Seq(Players) /\ ToSet(l) \subseteq ToSet(n.members[o])
        /\ Distinct(l) /\ \A i \in 1..Len(l) : l[i] # p
    BY <2>4, RemoveFirstKeeps, RemoveFirstDistinct
  <2>6. p \notin ToSet(l)
    BY <2>5, InToSet
  <2> HIDE DEF l, o, out, left, end
  <2>7. /\ out \in Nodes /\ out.members = [n.members EXCEPT ![o] = l]
        /\ out.rooms = n.rooms /\ out.users = n.users /\ out.userRoom = n.userRoom
        /\ out.sock = n.sock /\ out.listeners = n.listeners /\ out.userSock = n.userSock
    BY <1>1, <2>1, <2>3, <2>5, SetMembersIs
  <2>8. SameSocks(out, n)
    <3>1. out.timer = n.timer
      BY <1>1, <2>3 DEF SetMembers, Nodes
    <3>2. QED
      BY <2>7, <3>1 DEF SameSocks
  <2>9. out.members[o] = l /\ \A q \in Joins \ {o} : out.members[q] = n.members[q]
    BY <1>1, <2>1, <2>7 DEF Nodes
  <2>10. out \in GoodNodes(K)
    <3>1. ToSet(l) \subseteq ToSet(n.visitors[o])
      BY <2>1, <2>5 DEF GoodNodes, VisitInv
    <3>2. QED
      BY <2>1, <2>3, <2>5, <3>1, MembersGood
  <2>11. /\ left \in Nodes /\ SameSocks(left, out) /\ left.userRoom = out.userRoom
         /\ left.users = n.users
         /\ \A q \in Joins : Distinct(left.members[q])
         /\ \A q \in Joins \ {o} : left.members[q] = out.members[q]
         /\ left.rooms[r] # 0 => left = out
         /\ \A s \in Rooms \ {r} : left.rooms[s] = n.rooms[s]
    <3>1. \A q \in Joins : Distinct(out.members[q])
      BY <2>5, <2>9 DEF SeatsOnce
    <3>2. CASE out.members[o] = << >>
      <4>1. out.rooms[r] = o /\ out.rooms[r] # 0
        BY <2>1, <2>7
      <4>2. LET k == LastLeaves(out, r, out.rooms[r])
            IN k \in GoodNodes(K) /\ Closes(k, out) /\ k.users = out.users
               /\ k.rooms = Without(out.rooms, r)
        BY <2>1, <2>10, <4>1, LastLeavesGood, Zenon
      <4>3. /\ left \in GoodNodes(K) /\ left.users = out.users
            /\ left.rooms = Without(out.rooms, r)
        BY <3>2, <4>1, <4>2 DEF left
      <4>4. left.rooms[r] = 0 /\ \A s \in Rooms \ {r} : left.rooms[s] = n.rooms[s]
        BY <1>1, <2>1, <2>7, <4>3 DEF Without, Nodes
      <4>5. SameSocks(left, out) /\ left.userRoom = out.userRoom
        BY <2>1, <2>7, <3>2, LastLeavesSocks DEF left
      <4>6. /\ \A q \in Joins : left.members[q] = << >> \/ left.members[q] = out.members[q]
            /\ \A q \in Joins \ {o} : left.members[q] = out.members[q]
        <5>1. left.members = [out.members EXCEPT ![o] = << >>]
          BY <2>7, <3>2 DEF left, LastLeaves, FinishClose, DropRoles, OnClose, Nodes
        <5>2. QED
          BY <2>7, <5>1 DEF Nodes
      <4>7. ASSUME NEW q \in Joins PROVE Distinct(left.members[q])
        <5>1. Distinct(<< >>)
          BY DEF Distinct
        <5>2. QED
          BY <3>1, <4>6, <5>1
      <4>8. QED
        BY <2>7, <4>3, <4>4, <4>5, <4>6, <4>7 DEF GoodNodes
    <3>3. CASE out.members[o] # << >>
      BY <2>7, <3>1, <3>3 DEF left, SameSocks
    <3>4. QED
      BY <3>2, <3>3
  <2>12. /\ SameSocks(end, left) /\ end.rooms = left.rooms /\ end.members = left.members
         /\ \A x \in Joins : Player(x) # p => end.userRoom[x] = left.userRoom[x]
    <3>1. CASE left.users[p] = 0
      BY <3>1 DEF end, SameSocks
    <3>2. CASE left.users[p] # 0
      <4> DEFINE y == left.users[p]
                 v == [left.userRoom EXCEPT ![y] = NoRoom]
      <4>1. y \in Joins /\ Player(y) = p
        BY <2>1, <2>11, <3>2 DEF GoodNodes, Nodes, Objects, FiledInv
      <4>2. end = [left EXCEPT !.userRoom = v]
        BY <3>2 DEF end
      <4>3. \A x \in Joins : Player(x) # p => v[x] = left.userRoom[x]
        BY <2>11, <4>1 DEF Nodes
      <4> HIDE DEF v, y
      <4>4. /\ SameSocks(end, left) /\ end.rooms = left.rooms
            /\ end.members = left.members /\ end.userRoom = v
        BY <2>11, <4>2 DEF Nodes, SameSocks
      <4>5. QED
        BY <4>3, <4>4
    <3>3. QED
      BY <3>1, <3>2
  <2>13. SameSocks(end, n) /\ SeatsOnce(end)
    BY <2>8, <2>11, <2>12 DEF SameSocks, SeatsOnce
  <2>14. ASSUME NEW q \in Players, NEW s \in Rooms, Seated(end, q, s)
         PROVE  /\ Seated(n, q, s) /\ (s = r \/ OneRoomEach => q # p)
                /\ OneRoomEach =>
                     \A x \in Joins : Player(x) = q => end.userRoom[x] = n.userRoom[x]
    <3>1. left.rooms[s] # 0 /\ q \in ToSet(left.members[left.rooms[s]])
      BY <2>12, <2>14 DEF Seated
    <3>2. Seated(n, q, s) /\ (s = r \/ OneRoomEach => q # p)
      <4>1. CASE s = r
        <5>1. left = out /\ left.rooms[r] = o
          BY <2>1, <2>7, <2>11, <3>1, <4>1
        <5>2. q \in ToSet(l) /\ q # p
          BY <2>6, <2>9, <3>1, <4>1, <5>1
        <5>3. QED
          BY <2>1, <2>5, <4>1, <5>2 DEF Seated
      <4>2. CASE s # r
        <5>1. left.rooms[s] = n.rooms[s]
          BY <2>11, <4>2
        <5>2. n.rooms[s] \in Joins /\ n.rooms[s] # o
          BY <1>1, <2>1, <3>1, <4>2, <5>1 DEF GoodNodes, Nodes, Objects, FiledInv
        <5>3. Seated(n, q, s)
          BY <2>9, <2>11, <3>1, <5>1, <5>2 DEF Seated
        <5>4. Seated(n, p, r)
          <6>1. p \in ToSet(n.members[o])
            BY <1>3 DEF ToSet
          <6>2. QED
            BY <2>1, <6>1 DEF Seated
        <5>5. QED
          BY <2>1, <4>2, <5>3, <5>4 DEF HomeInv, OneRoomEach
      <4>3. QED
        BY <4>1, <4>2
    <3>3. QED
      BY <2>7, <2>11, <2>12, <3>2
  <2>15. QED
    BY <2>1, <2>2, <2>13, <2>14 DEF Vacates
<1>4. QED
  BY <1>2, <1>3

LEMMA CutSocks ==
  ASSUME NEW n \in Nodes, NEW x \in Joins
  PROVE  LET k == Cut(n, x)  s == n.userSock[x]
         IN /\ k.timer = n.timer /\ k.listeners = n.listeners
            /\ k.userSock[x] = NoSock
            /\ \A y \in Joins \ {x} : k.userSock[y] = n.userSock[y]
            /\ \A t \in Socks : \/ k.sock[t] = n.sock[t]
                                \/ n.sock[t] = "open" /\ k.sock[t] = "closing"
            /\ s # NoSock => k.sock[s] # "open"
<1> DEFINE s == n.userSock[x]
           v == [n.sock EXCEPT ![s] = IF n.sock[s] = "open" THEN "closing" ELSE n.sock[s]]
           w == [n.userSock EXCEPT ![x] = NoSock]
           a == [n EXCEPT !.sock = v]
           b == [a EXCEPT !.userSock = w]
<1>1. CASE s = NoSock
  BY <1>1 DEF Cut
<1>2. CASE s # NoSock
  <2>1. s \in Socks
    BY <1>2 DEF Nodes
  <2>2. Cut(n, x) = b
    BY <1>2 DEF Cut
  <2>3. w[x] = NoSock /\ \A y \in Joins \ {x} : w[y] = n.userSock[y]
    BY DEF Nodes
  <2>4. /\ v[s] # "open"
        /\ \A t \in Socks : v[t] = n.sock[t] \/ (n.sock[t] = "open" /\ v[t] = "closing")
    BY <2>1 DEF Nodes
  <2> HIDE DEF v, w
  <2>5. b.timer = n.timer /\ b.listeners = n.listeners /\ b.userSock = w /\ b.sock = v
    BY DEF Nodes
  <2> HIDE DEF s, b
  <2>6. QED
    BY <2>2, <2>3, <2>4, <2>5 DEF s
<1>3. QED
  BY <1>1, <1>2

\* A player is logged out through a User object that has a socket, or had one.
LEMMA DoLogoutParts ==
  ASSUME LifecycleAssumption, NEW K, NEW n \in GoodNodes(K), NEW x \in Joins,
         OwnSocks(n), SeatsOnce(n), HomeInv(n), n.userSock[x] # NoSock \/ Hung(n, Player(x))
  PROVE  LET k == DoLogout(n, x)
         IN /\ Parts(k, n) /\ k.users[Player(x)] = 0 /\ k.userSock[x] = NoSock
            /\ Hung(k, Player(x))
            /\ OneRoomEach =>
                 \A r \in Rooms : Seated(k, Player(x), r) => k.userRoom[x] # r
<1> DEFINE p == Player(x)
           c == Cut(n, x)
           u == c.userRoom[x]
           l == LeaveRoom(c, u, p)
           k == [l EXCEPT !.users = [l.users EXCEPT ![p] = 0]]
<1>1. n \in Nodes /\ p \in Players
  BY PlayerOf DEF GoodNodes
<1>2. /\ c \in Nodes /\ SameRooms(c, n) /\ c.users = n.users /\ c.userRoom = n.userRoom
  BY <1>1, CutIs
<1>3. c \in GoodNodes(K) /\ SeatsOnce(c) /\ HomeInv(c)
  BY <1>2, SameRoomsGood DEF OwnUsers, SeatsOnce, HomeInv, Seated, SameRooms
<1>4. u \in Rooms \cup {NoRoom}
  BY <1>2 DEF Nodes
<1>5. DoLogout(n, x) = k
  <2>1. DoLogout(n, x) = [l EXCEPT !.users[p] = 0]
    BY <1>1, LogoutIs
  <2> HIDE DEF l, p
  <2>2. QED
    BY <2>1
<1>6. /\ c.timer = n.timer /\ c.listeners = n.listeners /\ c.userSock[x] = NoSock
      /\ \A y \in Joins \ {x} : c.userSock[y] = n.userSock[y]
      /\ \A t \in Socks : \/ c.sock[t] = n.sock[t]
                          \/ n.sock[t] = "open" /\ c.sock[t] = "closing"
      /\ n.userSock[x] # NoSock => c.sock[n.userSock[x]] # "open"
  BY <1>1, CutSocks
<1> HIDE DEF c, p, u
<1>7. l \in GoodNodes(K) /\ l.users = c.users
  BY <1>1, <1>3, <1>4, LeaveRoomGood
<1>8. /\ SameSocks(l, c) /\ SeatsOnce(l) /\ Vacates(l, c)
      /\ u # NoRoom => ~Seated(l, p, u)
  BY <1>1, <1>3, <1>4, LeaveRoomParts
<1> HIDE DEF l
<1>9. l \in Nodes /\ l.users \in [Players -> Objects]
  BY <1>7 DEF GoodNodes, Nodes
<1>10. /\ k.users[p] = 0 /\ \A q \in Players \ {p} : k.users[q] = n.users[q]
       /\ SameSocks(k, l) /\ k.rooms = l.rooms /\ k.members = l.members
       /\ k.userRoom = l.userRoom
  <2> DEFINE v == [l.users EXCEPT ![p] = 0]
  <2>1. v[p] = 0 /\ \A q \in Players \ {p} : v[q] = l.users[q]
    BY <1>1, <1>9
  <2> HIDE DEF v
  <2>2. /\ k.users = v /\ SameSocks(k, l) /\ k.rooms = l.rooms /\ k.members = l.members
        /\ k.userRoom = l.userRoom
    BY <1>9 DEF v, SameSocks, Nodes
  <2> HIDE DEF k
  <2>3. QED
    BY <1>2, <1>7, <2>1, <2>2
<1> HIDE DEF k
<1>11. /\ k.timer = n.timer /\ k.listeners = n.listeners /\ k.sock = c.sock
       /\ k.userSock = c.userSock
  BY <1>6, <1>8, <1>10 DEF SameSocks
<1>12. Hung(k, p)
  <2>1. CASE n.userSock[x] # NoSock
    <3>1. n.userSock[x] \in Socks /\ Owner[n.userSock[x]] = p
      BY <1>1, <2>1 DEF Nodes, OwnSocks, p
    <3>2. QED
      BY <1>6, <1>11, <2>1, <3>1 DEF Hung
  <2>2. CASE Hung(n, p)
    <3>1. PICK s \in Socks : Owner[s] = p /\ n.sock[s] # "open"
      BY <2>2 DEF Hung
    <3>2. k.sock[s] # "open"
      BY <1>6, <1>11, <3>1
    <3>3. QED
      BY <3>1, <3>2 DEF Hung
  <2>3. QED
    BY <2>1, <2>2 DEF p
<1>13. ASSUME NEW s \in Socks
       PROVE  /\ k.sock[s] = "closed" <=> n.sock[s] = "closed"
              /\ k.sock[s] = "open" => n.sock[s] = "open"
  BY <1>6, <1>11
<1>14. ASSUME NEW y \in Joins
       PROVE  \/ k.userSock[y] = n.userSock[y]
              \/ k.userSock[y] = NoSock /\ k.sock[n.userSock[y]] # "open"
  BY <1>6, <1>11
<1>15. ASSUME NEW q \in Players
       PROVE  \/ /\ k.users[q] = n.users[q]
                 /\ k.users[q] # 0 => k.userSock[k.users[q]] = n.userSock[k.users[q]]
              \/ k.users[q] = 0 /\ Hung(k, q)
  <2>1. CASE q = p
    BY <1>10, <1>12, <2>1
  <2>2. CASE q # p
    <3>1. k.users[q] = n.users[q]
      BY <1>10, <2>2
    <3>2. ASSUME k.users[q] # 0
          PROVE  k.userSock[k.users[q]] = n.userSock[k.users[q]]
      <4>1. n.users[q] \in Joins /\ Player(n.users[q]) = q
        BY <1>1, <3>1, <3>2 DEF GoodNodes, Nodes, Objects, FiledInv
      <4>2. n.users[q] # x
        BY <2>2, <4>1 DEF p
      <4>3. QED
        BY <1>6, <1>11, <3>1, <4>1, <4>2
    <3>3. QED
      BY <3>1, <3>2
  <2>3. QED
    BY <2>1, <2>2
<1>16. \A q \in Players, r \in Rooms : Seated(k, q, r) => Seated(l, q, r)
  BY <1>10 DEF Seated
<1>17. Vacates(k, n)
  <2>1. \A q \in Players, r \in Rooms : Seated(c, q, r) => Seated(n, q, r)
    BY <1>2 DEF Seated, SameRooms
  <2>2. QED
    BY <1>2, <1>8, <1>10, <1>16, <2>1 DEF Vacates
<1>18. SeatsOnce(k)
  BY <1>8, <1>10 DEF SeatsOnce
<1>19. Parts(k, n)
  BY <1>11, <1>13, <1>14, <1>15, <1>17, <1>18 DEF Parts
<1>20. ASSUME OneRoomEach, NEW r \in Rooms, Seated(k, p, r) PROVE k.userRoom[x] # r
  <2>1. Seated(l, p, r)
    BY <1>1, <1>16, <1>20
  <2>2. l.userRoom[x] = u
    BY <1>1, <1>8, <1>20, <2>1 DEF Vacates, p, u
  <2>3. r # NoRoom
    BY DEF LifecycleAssumption
  <2>4. QED
    BY <1>8, <1>10, <2>1, <2>2, <2>3
<1>21. QED
  BY <1>5, <1>6, <1>10, <1>11, <1>12, <1>19, <1>20 DEF p

-----------------------------------------------------------------------------
(* The invariant of players and their connections.                         *)

\* The listeners of a socket are its player's, and a User object listens to its socket.
ListenInv(n) ==
  /\ \A s \in Socks : \A i \in 1..Len(n.listeners[s]) : Player(n.listeners[s][i]) = Owner[s]
  /\ \A x \in Joins : n.userSock[x] # NoSock => x \in ToSet(n.listeners[n.userSock[x]])

\* A User object that is filed has a socket whose close event is still to come.
UserInv(n) == \A p \in Players :
  n.users[p] # 0 => /\ n.userSock[n.users[p]] # NoSock
                    /\ n.sock[n.userSock[n.users[p]]] # "closed"

\* Someone will take a player out of the room, who has only this one: a User object that
\* has the room and listens to a socket whose close event is still to come.
SeatInv(n) == OneRoomEach => \A p \in Players, r \in Rooms : Seated(n, p, r) =>
  \E x \in Joins : /\ Player(x) = p /\ n.userRoom[x] = r
                   /\ \E s \in Socks : x \in ToSet(n.listeners[s]) /\ n.sock[s] # "closed"

\* Who has lost the User object, or one whose heart timer runs its socket, has a socket
\* that is not open.
HungInv(n) ==
  /\ \A x \in Joins : n.timer[x] /\ n.userSock[x] = NoSock => Hung(n, Player(x))
  /\ \A p \in Players, r \in Rooms : Seated(n, p, r) => n.users[p] # 0 \/ Hung(n, p)

\* What the close event of a socket leaves as it is.
CalmInv(n) == OwnSocks(n) /\ SeatsOnce(n) /\ HomeInv(n) /\ ListenInv(n) /\ HungInv(n)

SocksInv(n) == CalmInv(n) /\ UserInv(n) /\ SeatInv(n)

LEMMA PartsHung ==
  ASSUME NEW n, NEW k, Parts(k, n), NEW p, Hung(n, p)
  PROVE  Hung(k, p)
BY DEF Parts, Hung

LEMMA PartsOwn ==
  ASSUME NEW n, NEW k, Parts(k, n), OwnSocks(n)
  PROVE  OwnSocks(k)
BY DEF Parts, OwnSocks

LEMMA PartsHome ==
  ASSUME NEW n, NEW k, Parts(k, n), HomeInv(n)
  PROVE  HomeInv(k)
BY DEF Parts, Vacates, HomeInv

LEMMA PartsCalm ==
  ASSUME LifecycleAssumption, NEW n \in Nodes, NEW k \in Nodes, CalmInv(n), Parts(k, n)
  PROVE  CalmInv(k)
<1>1. OwnSocks(n) /\ SeatsOnce(n) /\ HomeInv(n) /\ ListenInv(n) /\ HungInv(n)
  BY DEF CalmInv
<1>2. OwnSocks(k) /\ SeatsOnce(k) /\ HomeInv(k)
  BY <1>1, PartsOwn, PartsHome DEF Parts
<1>3. ListenInv(k)
  BY <1>1 DEF ListenInv, Parts
<1>4. HungInv(k)
  <2>1. ASSUME NEW x \in Joins, k.timer[x], k.userSock[x] = NoSock
        PROVE  Hung(k, Player(x))
    <3>1. CASE n.userSock[x] = NoSock
      <4>1. Hung(n, Player(x))
        BY <1>1, <2>1, <3>1 DEF HungInv, Parts
      <4>2. QED
        BY <4>1, PartsHung
    <3>2. CASE n.userSock[x] # NoSock
      <4>1. n.userSock[x] \in Socks /\ Owner[n.userSock[x]] = Player(x)
        BY <1>1, <3>2 DEF Nodes, OwnSocks
      <4>2. k.sock[n.userSock[x]] # "open"
        BY <2>1, <3>2 DEF Parts
      <4>3. QED
        BY <4>1, <4>2 DEF Hung
    <3>3. QED
      BY <3>1, <3>2
  <2>2. ASSUME NEW p \in Players, NEW r \in Rooms, Seated(k, p, r)
        PROVE  k.users[p] # 0 \/ Hung(k, p)
    <3>1. n.users[p] # 0 \/ Hung(n, p)
      BY <1>1, <2>2 DEF Parts, Vacates, HungInv
    <3>2. Hung(n, p) => Hung(k, p)
      BY PartsHung
    <3>3. QED
      BY <3>1, <3>2 DEF Parts
  <2>3. QED
    BY <2>1, <2>2 DEF HungInv
<1>5. QED
  BY <1>2, <1>3, <1>4 DEF CalmInv

LEMMA PartsKeep ==
  ASSUME LifecycleAssumption, NEW n \in Nodes, NEW k \in Nodes, SocksInv(n), Parts(k, n)
  PROVE  SocksInv(k)
<1>1. CalmInv(k) /\ UserInv(n) /\ SeatInv(n)
  BY PartsCalm DEF SocksInv
<1>2. UserInv(k)
  <2> SUFFICES ASSUME NEW p \in Players, k.users[p] # 0
               PROVE  /\ k.userSock[k.users[p]] # NoSock
                      /\ k.sock[k.userSock[k.users[p]]] # "closed"
    BY DEF UserInv
  <2>1. /\ k.users[p] = n.users[p]
        /\ k.userSock[k.users[p]] = n.userSock[k.users[p]]
    BY DEF Parts
  <2>2. /\ n.userSock[n.users[p]] # NoSock /\ n.sock[n.userSock[n.users[p]]] # "closed"
    BY <1>1, <2>1 DEF UserInv
  <2>3. n.userSock[n.users[p]] \in Socks
    BY <2>1, <2>2 DEF Nodes, Objects
  <2>4. QED
    BY <2>1, <2>2, <2>3 DEF Parts
<1>3. SeatInv(k)
  <2> SUFFICES ASSUME OneRoomEach, NEW p \in Players, NEW r \in Rooms, Seated(k, p, r)
               PROVE  \E x \in Joins :
                        /\ Player(x) = p /\ k.userRoom[x] = r
                        /\ \E s \in Socks : /\ x \in ToSet(k.listeners[s])
                                            /\ k.sock[s] # "closed"
    BY DEF SeatInv
  <2>1. /\ Seated(n, p, r)
        /\ \A x \in Joins : Player(x) = p => k.userRoom[x] = n.userRoom[x]
    BY DEF Parts, Vacates
  <2>2. PICK x \in Joins :
          /\ Player(x) = p /\ n.userRoom[x] = r
          /\ \E s \in Socks : x \in ToSet(n.listeners[s]) /\ n.sock[s] # "closed"
    BY <1>1, <2>1 DEF SeatInv
  <2>3. QED
    BY <2>1, <2>2 DEF Parts
<1>4. QED
  BY <1>1, <1>2, <1>3 DEF SocksInv

\* Nothing happens to connections and seats.
LEMMA SameParts ==
  ASSUME NEW n \in Nodes, NEW k \in Nodes, SameSocks(k, n), k.users = n.users,
         k.userRoom = n.userRoom, k.rooms = n.rooms, k.members = n.members
  PROVE  Parts(k, n)
BY DEF SameSocks, Parts, Vacates, Seated, SeatsOnce

\* The player of x is logged out, as x has it.
Out(n, x) ==
  /\ n.users[Player(x)] = 0
  /\ OneRoomEach => \A r \in Rooms : Seated(n, Player(x), r) => n.userRoom[x] # r

LEMMA PartsOut ==
  ASSUME LifecycleAssumption, NEW n, NEW k, Parts(k, n), NEW x \in Joins, Out(n, x)
  PROVE  Out(k, x)
BY PlayerOf DEF Parts, Vacates, Out

LEMMA DisconnectParts ==
  ASSUME LifecycleAssumption, NEW K, NEW n \in GoodNodes(K), NEW x \in Joins,
         OwnSocks(n), SeatsOnce(n), HomeInv(n), Hung(n, Player(x))
  PROVE  Parts(Disconnect(n, x), n) /\ Out(Disconnect(n, x), x)
<1> DEFINE k == [n EXCEPT !.userState[x] = "disconnect"]
           d == DoLogout(k, x)
<1>1. n \in Nodes
  BY DEF GoodNodes
<1>2. /\ k \in Nodes /\ SameRooms(k, n) /\ k.users = n.users /\ k.userRoom = n.userRoom
      /\ SameSocks(k, n)
  <2>1. /\ k \in Nodes /\ SameRooms(k, n) /\ k.users = n.users
        /\ k.userRoom = n.userRoom /\ k.listeners = n.listeners /\ k.sock = n.sock
        /\ k.userSock = n.userSock
    BY <1>1, SetStateIs
  <2>2. k.timer = n.timer
    BY <1>1 DEF Nodes
  <2> HIDE DEF k
  <2>3. QED
    BY <2>1, <2>2 DEF SameSocks
<1>3. Disconnect(n, x) = d
  BY DEF Disconnect
<1> HIDE DEF k
<1>4. k \in GoodNodes(K) /\ Parts(k, n)
  BY <1>1, <1>2, SameRoomsGood, SameParts DEF OwnUsers, SameRooms
<1>5. OwnSocks(k) /\ SeatsOnce(k) /\ HomeInv(k) /\ Hung(k, Player(x))
  BY <1>4, PartsOwn, PartsHome, PartsHung DEF Parts
<1>6. Parts(d, k) /\ Out(d, x)
  BY <1>4, <1>5, DoLogoutParts DEF Out
<1>7. d \in Nodes
  BY <1>4, DoLogoutGood DEF GoodNodes
<1> HIDE DEF d
<1>8. Parts(d, n)
  BY <1>1, <1>2, <1>4, <1>6, <1>7, PartsTwice
<1>9. QED
  BY <1>3, <1>6, <1>8

\* The handlers of a socket that is not open any more log its player out, as each of its
\* listeners has it.
LEMMA DisconnectAllParts ==
  ASSUME LifecycleAssumption, NEW K, NEW n \in GoodNodes(K), NEW xs \in Seq(Joins),
         OwnSocks(n), SeatsOnce(n), HomeInv(n),
         \A i \in 1..Len(xs) : Hung(n, Player(xs[i]))
  PROVE  LET k == DisconnectAll(n, xs)
         IN Parts(k, n) /\ \A i \in 1..Len(xs) : Out(k, xs[i])
<1> DEFINE l == Len(xs)
<1>1. PICK g \in [0..l -> GoodNodes(K)] :
        /\ g[0] = n /\ DisconnectAll(n, xs) = g[l]
        /\ \A i \in 1..l : g[i] = Disconnect(g[i - 1], xs[i])
  BY DisconnectRun
<1>2. l \in Nat /\ \A i \in 1..l : xs[i] \in Joins
  OBVIOUS
<1> HIDE DEF l
<1> DEFINE G == {i \in 0..l : Parts(g[i], n) /\ \A h \in 1..i : Out(g[i], xs[h])}
<1>3. 0 \in G
  BY <1>1, <1>2, PartsSelf
<1>4. ASSUME NEW i \in 1..l, i - 1 \in G PROVE i \in G
  <2>1. /\ i - 1 \in 0..l /\ i \in 0..l /\ g[i - 1] \in GoodNodes(K)
        /\ g[i] = Disconnect(g[i - 1], xs[i]) /\ xs[i] \in Joins
    BY <1>1, <1>2
  <2>2. Parts(g[i - 1], n) /\ \A h \in 1..(i - 1) : Out(g[i - 1], xs[h])
    BY <1>4
  <2> HIDE DEF G
  <2>3. n \in Nodes /\ g[i] \in Nodes /\ g[i - 1] \in Nodes
    BY <1>1, <2>1 DEF GoodNodes
  <2>4. /\ OwnSocks(g[i - 1]) /\ SeatsOnce(g[i - 1]) /\ HomeInv(g[i - 1])
        /\ Hung(g[i - 1], Player(xs[i]))
    <3>1. Hung(n, Player(xs[i]))
      BY DEF l
    <3>2. QED
      BY <2>2, <3>1, PartsOwn, PartsHome, PartsHung DEF Parts
  <2>5. Parts(g[i], g[i - 1]) /\ Out(g[i], xs[i])
    BY <2>1, <2>4, DisconnectParts
  <2>6. Parts(g[i], n)
    BY <2>2, <2>3, <2>5, PartsTwice
  <2>7. ASSUME NEW h \in 1..i PROVE Out(g[i], xs[h])
    <3>1. CASE h = i
      BY <2>5, <3>1
    <3>2. CASE h # i
      <4>1. h \in 1..(i - 1) /\ xs[h] \in Joins
        BY <1>2, <3>2
      <4>2. QED
        BY <2>2, <2>5, <4>1, PartsOut
    <3>3. QED
      BY <3>1, <3>2
  <2>8. QED
    BY <2>1, <2>6, <2>7 DEF G
<1> HIDE DEF G
<1>5. \A i \in 0..l : i \in G
  BY <1>2, <1>3, <1>4, EveryTurn
<1>6. l \in 0..l
  BY <1>2
<1>7. QED
  BY <1>1, <1>5, <1>6 DEF G, l

\* The first and the last lines of Room.closeRoom.
LEMMA DropRolesParts ==
  ASSUME LifecycleAssumption, NEW K, NEW n \in GoodNodes(K), NEW r \in Rooms
  PROVE  Parts(DropRoles(n, r), n)
<1>1. n \in Nodes /\ DropRoles(n, r) \in Nodes
  BY DropRolesGood DEF GoodNodes
<1>2. LET k == DropRoles(n, r)
      IN /\ SameSocks(k, n) /\ k.users = n.users /\ k.userRoom = n.userRoom
         /\ k.rooms = n.rooms /\ k.members = n.members
  BY <1>1 DEF DropRoles, SameSocks, Nodes
<1>3. QED
  BY <1>1, <1>2, SameParts

LEMMA FinishCloseParts ==
  ASSUME LifecycleAssumption, NEW K, NEW n \in GoodNodes(K),
         NEW r \in Rooms, NEW o \in Joins, n.roomId[o] = r, r \in K, r \notin n.logicRooms,
         n.rooms[r] = o \/ (n.rooms[r] = 0 /\ n.visitors[o] = << >>)
  PROVE  Parts(FinishClose(n, r, o), n)
<1> DEFINE k == FinishClose(n, r, o)
<1>1. n \in Nodes
  BY DEF GoodNodes
<1>2. k.users = n.users /\ k.rooms = Without(n.rooms, r)
  BY FinishCloseGood
<1>3. SameSocks(k, n) /\ k.userRoom = n.userRoom
  BY <1>1, FinishCloseSocks
<1>4. k.members = [n.members EXCEPT ![o] = << >>]
  BY <1>1 DEF FinishClose, OnClose, Nodes
<1> HIDE DEF k
<1>5. SeatsOnce(n) => SeatsOnce(k)
  <2> SUFFICES ASSUME SeatsOnce(n), NEW q \in Joins PROVE Distinct(k.members[q])
    BY DEF SeatsOnce
  <2>1. Distinct(<< >>)
    BY DEF Distinct
  <2>2. k.members[q] = << >> \/ k.members[q] = n.members[q]
    BY <1>1, <1>4 DEF Nodes
  <2>3. QED
    BY <2>1, <2>2 DEF SeatsOnce
<1>6. /\ k.rooms[r] = 0
      /\ \A q \in Rooms \ {r} : k.rooms[q] = n.rooms[q]
  BY <1>1, <1>2 DEF Without, Nodes
<1>7. Vacates(k, n)
  <2> SUFFICES ASSUME NEW p \in Players, NEW q \in Rooms, Seated(k, p, q)
               PROVE  Seated(n, p, q)
    BY <1>3 DEF Vacates
  <2>1. q # r /\ n.rooms[q] # 0 /\ p \in ToSet(k.members[n.rooms[q]])
    BY <1>6 DEF Seated
  <2>2. n.rooms[q] \in Joins /\ n.rooms[q] # o
    BY <1>1, <2>1 DEF GoodNodes, Nodes, Objects, FiledInv
  <2>3. k.members[n.rooms[q]] = n.members[n.rooms[q]]
    BY <1>1, <1>4, <2>2 DEF Nodes
  <2>4. QED
    BY <2>1, <2>3 DEF Seated
<1>8. QED
  BY <1>2, <1>3, <1>5, <1>7 DEF Parts, SameSocks, k

LEMMA CloseTurnParts ==
  ASSUME LifecycleAssumption, NEW K, NEW o \in Joins,
         NEW e \in Turns(K), NEW i \in Nat \ {0}, SocksInv(e.node)
  PROVE  Parts(CloseTurn(e, i, o).node, e.node)
<1> DEFINE m == e.node
           p == m.members[o][i]
           x == m.users[p]
           d == DoLogout(m, x)
           k == [d EXCEPT !.logicUsers = @ \ {p}]
<1>1. m \in GoodNodes(K) /\ m \in Nodes /\ Parts(m, m)
  BY PartsSelf DEF GoodNodes, Turns
<1>2. CASE (e.thrown \/ i > Len(m.members[o])) \/ x = 0
  BY <1>1, <1>2 DEF CloseTurn
<1>3. CASE ~(e.thrown \/ i > Len(m.members[o])) /\ x # 0
  <2>1. p \in Players
    BY <1>1, <1>3 DEF Nodes
  <2>2. x \in Joins /\ m.userSock[x] # NoSock
    BY <1>1, <1>3, <2>1 DEF Nodes, Objects, SocksInv, UserInv
  <2>3. CloseTurn(e, i, o) = [node |-> k, thrown |-> FALSE]
    BY <1>3 DEF CloseTurn
  <2>4. OwnSocks(m) /\ SeatsOnce(m) /\ HomeInv(m)
    BY DEF SocksInv, CalmInv
  <2> HIDE DEF m, x, p
  <2>5. d \in GoodNodes(K) /\ Parts(d, m)
    BY <1>1, <2>2, <2>4, DoLogoutGood, DoLogoutParts
  <2> HIDE DEF d
  <2>6. d \in Nodes
    BY <2>5 DEF GoodNodes
  <2>7. /\ k \in Nodes /\ SameRooms(k, d) /\ k.users = d.users /\ k.userRoom = d.userRoom
        /\ k.listeners = d.listeners /\ k.sock = d.sock /\ k.userSock = d.userSock
    BY <2>6, DropUserIs
  <2>8. k.timer = d.timer
    BY <2>6 DEF Nodes
  <2> HIDE DEF k
  <2>9. Parts(k, d)
    BY <2>6, <2>7, <2>8, SameParts DEF SameSocks, SameRooms
  <2>10. Parts(k, m)
    BY <1>1, <2>5, <2>6, <2>7, <2>9, PartsTwice
  <2>11. QED
    BY <2>3, <2>10 DEF m
<1>4. QED
  BY <1>2, <1>3

LEMMA CloseRoomParts ==
  ASSUME LifecycleAssumption, NEW K, NEW n \in GoodNodes(K), NEW r \in Rooms,
         SocksInv(n)
  PROVE  Parts(CloseRoom(n, r), n)
<1> DEFINE o == n.rooms[r]
           L == Len(n.members[o])
           T == Turns(K)
<1>1. CASE o = 0
  BY <1>1, PartsSelf DEF CloseRoom
<1>2. CASE o # 0
  <2>1. n \in Nodes /\ o \in Joins /\ n.roomId[o] = r /\ r \in K
    BY <1>2 DEF GoodNodes, Nodes, Objects, FiledInv, KnownInv
  <2>2. L \in Nat /\ \E g \in [0..L -> Turns(K)] : IsClosing(g, n, r)
    <3>1. n.rooms[r] # 0
      BY <1>2
    <3>2. QED
      BY <3>1, CloseRoomRun
  <2>3. PICK g \in [0..L -> T] : IsClosing(g, n, r)
    BY <2>2
  <2>4. /\ g[0] = [node |-> DropRoles(n, r), thrown |-> FALSE]
        /\ \A i \in 1..L : g[i] = CloseTurn(g[i - 1], i, o)
        /\ CloseRoom(n, r) = IF g[L].thrown THEN g[L].node
                             ELSE FinishClose(g[L].node, r, o)
    BY <2>3, Zenon DEF IsClosing
  <2> HIDE DEF L, T
  <2> DEFINE G == {i \in 0..L : /\ Parts(g[i].node, n) /\ Closes(g[i].node, n)
                                /\ r \notin g[i].node.logicRooms}
  <2> HIDE DEF o
  <2>5. 0 \in G
    <3>1. /\ Closes(DropRoles(n, r), n) /\ Parts(DropRoles(n, r), n)
          /\ DropRoles(n, r).logicRooms = n.logicRooms \ {r}
      BY DropRolesGood, DropRolesParts
    <3>2. g[0].node = DropRoles(n, r)
      BY <2>4
    <3>3. QED
      BY <2>2, <3>1, <3>2
  <2>6. ASSUME NEW i \in 1..L, i - 1 \in G PROVE i \in G
    <3> DEFINE e == g[i - 1]
    <3>1. /\ i \in Nat \ {0} /\ i - 1 \in 0..L /\ i \in 0..L /\ e \in T
          /\ g[i] = CloseTurn(e, i, o)
          /\ Closes(e.node, n) /\ Parts(e.node, n) /\ r \notin e.node.logicRooms
      BY <2>2, <2>4, <2>6
    <3> HIDE DEF e, G
    <3>2. CloseTurn(e, i, o) \in T /\ Closes(CloseTurn(e, i, o).node, e.node)
      BY <2>1, <3>1, CloseTurnGood DEF T, Turns
    <3>3. g[i].node \in Nodes /\ e.node \in Nodes
      BY <3>1, <3>2 DEF GoodNodes, T, Turns
    <3>4. SocksInv(e.node)
      BY <2>1, <3>1, <3>3, PartsKeep
    <3>5. Parts(g[i].node, e.node)
      BY <2>1, <3>1, <3>4, CloseTurnParts DEF T
    <3>6. Parts(g[i].node, n)
      BY <2>1, <3>1, <3>3, <3>5, PartsTwice
    <3>7. Closes(g[i].node, n)
      BY <2>1, <3>1, <3>2, <3>3, ClosesTwice
    <3>8. r \notin g[i].node.logicRooms
      BY <3>1, <3>2 DEF Closes, Keeps
    <3>9. QED
      BY <3>1, <3>6, <3>7, <3>8 DEF G
  <2>7. \A i \in 0..L : i \in G
    <3> HIDE DEF G
    <3>1. QED
      BY <2>2, <2>5, <2>6, EveryTurn
  <2> DEFINE m == g[L].node
  <2>8. /\ m \in GoodNodes(K) /\ Parts(m, n) /\ Closes(m, n) /\ r \notin m.logicRooms
    <3>1. L \in 0..L
      BY <2>2
    <3>2. g[L] \in T
      BY <3>1
    <3>3. QED
      BY <2>7, <3>1, <3>2 DEF T, Turns
  <2>9. CloseRoom(n, r) = m \/ CloseRoom(n, r) = FinishClose(m, r, o)
    BY <2>4
  <2> HIDE DEF m
  <2>10. /\ m.roomId = n.roomId /\ m.roomId[o] = r
         /\ m.rooms[r] = o \/ (m.rooms[r] = 0 /\ m.visitors[o] = << >>)
    BY <2>1, <2>8 DEF Closes, Keeps, o
  <2>11. FinishClose(m, r, o) \in GoodNodes(K) /\ Parts(FinishClose(m, r, o), m)
    BY <2>1, <2>8, <2>10, FinishCloseGood, FinishCloseParts
  <2>12. Parts(FinishClose(m, r, o), n)
    BY <2>1, <2>8, <2>11, PartsTwice DEF GoodNodes
  <2>13. QED
    BY <2>8, <2>9, <2>12
<1>3. QED
  BY <1>1, <1>2

-----------------------------------------------------------------------------
(* Sending does nothing to connections and seats; entering takes a seat.   *)

SameSeats(k, n) ==
  /\ SameSocks(k, n) /\ k.users = n.users /\ k.userRoom = n.userRoom
  /\ k.rooms = n.rooms /\ k.members = n.members

LEMMA SameSeatsTwice ==
  ASSUME NEW n, NEW k, NEW l, SameSeats(l, k), SameSeats(k, n)
  PROVE  SameSeats(l, n)
BY DEF SameSeats, SameSocks

LEMMA SendAllSeats ==
  ASSUME LifecycleAssumption, NEW n \in Nodes, NEW k \in Written(n)
  PROVE  SameSeats(k, n)
<1>1. /\ SameRooms(k, n) /\ k.users = n.users /\ k.userRoom = n.userRoom
      /\ k.sock = n.sock /\ k.listeners = n.listeners /\ k.userSock = n.userSock
      /\ k = [n EXCEPT !.inbox = k.inbox]
  BY WrittenIs
<1>2. [n EXCEPT !.inbox = k.inbox].timer = n.timer
  BY DEF Nodes
<1>3. k.timer = n.timer
  BY <1>1, <1>2
<1>4. QED
  BY <1>1, <1>3 DEF SameSeats, SameSocks, SameRooms

LEMMA RoomSendSeats ==
  ASSUME LifecycleAssumption, NEW n \in Nodes, NEW o \in Joins, NEW m \in Texts
  PROVE  SameSeats(RoomSend(n, o, m), n)
<1>1. CASE ~n.isLogic[o]
  BY <1>1 DEF RoomSend, SameSeats, SameSocks
<1>2. CASE n.isLogic[o] /\ n.started[o]
  <2>1. RoomSend(n, o, m) = SendAll(n, o, m)
    BY <1>2 DEF RoomSend
  <2>2. SendAll(n, o, m) \in Written(n)
    BY SendAllWrites, WrittenIs
  <2>3. QED
    BY <2>1, <2>2, SendAllSeats
<1>3. CASE n.isLogic[o] /\ ~n.started[o]
  <2> DEFINE l == [n EXCEPT !.pending = [n.pending EXCEPT ![o] = Append(n.pending[o], m)]]
  <2>1. RoomSend(n, o, m) = l
    BY <1>3 DEF RoomSend
  <2>2. SameSeats(l, n)
    BY DEF SameSeats, SameSocks, Nodes
  <2>3. QED
    BY <2>1, <2>2
<1>4. QED
  BY <1>1, <1>2, <1>3

LEMMA StartSeats ==
  ASSUME LifecycleAssumption, NEW n \in Nodes, NEW o \in Joins
  PROVE  SameSeats(Start(n, o), n)
<1> DEFINE v == [n.started EXCEPT ![o] = TRUE]
           e == [n.early EXCEPT ![o] = IF n.started[o] THEN n.early[o] ELSE n.sent[o]]
           a == [n EXCEPT !.started = v]
           b == [a EXCEPT !.early = e]
<1>1. v \in [Joins -> BOOLEAN] /\ e \in [Joins -> 0..Len(Says)]
  BY DEF Nodes
<1>2. Start(n, o) = SendPending(b, o)
  BY DEF Start, Nodes
<1> HIDE DEF v, e
<1>3. a \in Nodes /\ SameSeats(a, n)
  BY <1>1 DEF Nodes, SameSeats, SameSocks
<1> HIDE DEF a
<1>4. b \in Nodes /\ SameSeats(b, a)
  BY <1>1, <1>3 DEF Nodes, SameSeats, SameSocks
<1> HIDE DEF b
<1>5. PICK k \in Written(b) :
        SendPending(b, o) = [k EXCEPT !.pending = [b.pending EXCEPT ![o] = << >>]]
  BY <1>4, SendPendingWrites
<1>6. k \in Nodes /\ SameSeats(k, b)
  BY <1>4, WrittenIs, SendAllSeats
<1>7. SameSeats(SendPending(b, o), k)
  <2> DEFINE u == [b.pending EXCEPT ![o] = << >>]
  <2> HIDE DEF u
  <2>1. SameSeats([k EXCEPT !.pending = u], k)
    BY <1>6 DEF SameSeats, SameSocks, Nodes
  <2>2. QED
    BY <1>5, <2>1 DEF u
<1>8. QED
  BY <1>2, <1>3, <1>4, <1>6, <1>7, SameSeatsTwice

LEMMA CompleteSeats ==
  ASSUME LifecycleAssumption, NEW K, NEW n \in GoodNodes(K), NEW j \in Joins,
         NEW x \in Joins, NEW o \in Joins, n.roomId[o] # NoRoom
  PROVE  SameSeats(Complete(n, j, x, o), Arrived(n, j, x, o))
<1> DEFINE r    == n.roomId[o]
           in   == Arrived(n, j, x, o)
           room == IF o = j THEN in.rooms[r] ELSE o
           m    == Message(0, << >>, TRUE)
           k    == RoomSend(in, room, m)
<1>1. in \in GoodNodes(K) /\ in \in Nodes /\ r \in Rooms
  <2>1. in \in GoodNodes(K)
    BY ArrivedGood
  <2> HIDE DEF in
  <2>2. n \in Nodes /\ in \in Nodes
    BY <2>1 DEF GoodNodes
  <2>3. QED
    BY <2>1, <2>2 DEF Nodes
<1>2. Complete(n, j, x, o) =
        IF room # 0 /\ EveryoneIsIn(in, room, r) THEN Start(k, room) ELSE in
  BY DEF Complete, Arrived
<1> HIDE DEF in
<1>3. CASE room # 0 /\ EveryoneIsIn(in, room, r)
  <2>1. room \in Joins
    BY <1>1, <1>3 DEF Nodes, Objects
  <2>2. m \in Texts
    <3>1. Len(Says) \in Nat /\ << >> \in Seq(Players)
      BY DEF LifecycleAssumption
    <3>2. QED
      BY <3>1 DEF Texts, Message
  <2>3. Complete(n, j, x, o) = Start(k, room)
    BY <1>2, <1>3
  <2> HIDE DEF m, room
  <2>4. k \in Nodes /\ SameSeats(k, in)
    BY <1>1, <2>1, <2>2, RoomSendGood, RoomSendSeats DEF GoodNodes
  <2> HIDE DEF k
  <2>5. SameSeats(Start(k, room), k)
    BY <2>1, <2>4, StartSeats
  <2>6. QED
    BY <2>3, <2>4, <2>5, SameSeatsTwice DEF in
<1>4. CASE ~(room # 0 /\ EveryoneIsIn(in, room, r))
  BY <1>2, <1>4 DEF SameSeats, SameSocks, in
<1>5. QED
  BY <1>3, <1>4

LEMMA UpdateSocketTimer ==
  ASSUME NEW n \in Nodes, NEW x \in Joins, NEW s \in Socks
  PROVE  LET k == UpdateSocket(n, x, s)
         IN k.timer[x] /\ \A y \in Joins \ {x} : k.timer[y] = n.timer[y]
<1>1. UpdateSocket(n, x, s).timer = [n.timer EXCEPT ![x] = TRUE]
  BY DEF UpdateSocket, Nodes
<1>2. QED
  BY <1>1 DEF Nodes

\* Game.enter finds the player's User object, or makes one: it has an open socket then.
LEMMA WithUserSocks ==
  ASSUME LifecycleAssumption, NEW K, NEW n \in GoodNodes(K), SocksInv(n), NEW j \in Joins,
         n.sock[JoinSock[j]] = "open", WithUser(n, j) # n
  PROVE  LET k == WithUser(n, j)  s == JoinSock[j]
         IN /\ n.users[Player(j)] = 0 /\ k.users[Player(j)] = j
            /\ \A q \in Players \ {Player(j)} : k.users[q] = n.users[q]
            /\ k.userSock[j] = s /\ k.timer[j] /\ k.sock = n.sock
            /\ k.listeners[s] = Append(n.listeners[s], j)
            /\ \A q \in Socks \ {s} : k.listeners[q] = n.listeners[q]
            /\ \A y \in Joins \ {j} : /\ k.userSock[y] = n.userSock[y]
                                      /\ k.timer[y] = n.timer[y]
            /\ k.userRoom = n.userRoom
<1> DEFINE p == Player(j)
           x == n.users[p]
           s == JoinSock[j]
           u == UpdateSocket(n, j, s)
           v == [u.users EXCEPT ![p] = j]
           k == [u EXCEPT !.users = v]
<1>1. n \in Nodes /\ p \in Players /\ s \in Socks /\ x \in Objects
  BY PlayerOf DEF GoodNodes, Nodes
<1>2. x = 0
  <2>1. x # 0 => n.userSock[x] # NoSock
    BY <1>1 DEF SocksInv, UserInv
  <2>2. QED
    BY <2>1 DEF WithUser
<1>3. WithUser(n, j) = k
  BY <1>2 DEF WithUser, NewUser
<1>4. /\ u \in Nodes /\ u.users = n.users /\ u.userSock[j] = s /\ u.sock = n.sock
      /\ u.userRoom = n.userRoom
      /\ \A y \in Joins \ {j} : u.userSock[y] = n.userSock[y]
      /\ u.listeners[s] = Append(n.listeners[s], j)
      /\ \A q \in Socks \ {s} : u.listeners[q] = n.listeners[q]
      /\ u.timer[j] /\ \A y \in Joins \ {j} : u.timer[y] = n.timer[y]
  <2> HIDE DEF p, x, s, v, k
  <2>1. QED
    BY <1>1, UpdateSocketIs, UpdateSocketTimer DEF x
<1> HIDE DEF u, p, x, s
<1>5. v[p] = j /\ \A q \in Players \ {p} : v[q] = n.users[q]
  BY <1>1, <1>4 DEF Nodes
<1> HIDE DEF v
<1>6. k.users = v /\ SameSocks(k, u) /\ k.userRoom = u.userRoom
  BY <1>4 DEF Nodes, SameSocks
<1> HIDE DEF k
<1>7. QED
  BY <1>2, <1>3, <1>4, <1>5, <1>6 DEF SameSocks, p, s, x

LEMMA WithUserKeeps ==
  ASSUME LifecycleAssumption, NEW K, NEW n \in GoodNodes(K), SocksInv(n), NEW j \in Joins,
         n.sock[JoinSock[j]] = "open"
  PROVE  SocksInv(WithUser(n, j))
<1> DEFINE p == Player(j)
           s == JoinSock[j]
           k == WithUser(n, j)
<1>1. /\ n \in Nodes /\ p \in Players /\ s \in Socks /\ Owner[s] = p
      /\ k \in GoodNodes(K) /\ SameRooms(k, n) /\ j # 0
  BY PlayerOf, WithUserGood, JoinNumbers DEF GoodNodes, Player
<1>2. CASE k = n
  BY <1>2
<1>3. CASE k # n
  <2>1. /\ n.users[p] = 0 /\ k.users[p] = j
        /\ \A q \in Players \ {p} : k.users[q] = n.users[q]
        /\ k.userSock[j] = s /\ k.timer[j] /\ k.sock = n.sock
        /\ k.listeners[s] = Append(n.listeners[s], j)
        /\ \A q \in Socks \ {s} : k.listeners[q] = n.listeners[q]
        /\ \A y \in Joins \ {j} : k.userSock[y] = n.userSock[y] /\ k.timer[y] = n.timer[y]
        /\ k.userRoom = n.userRoom
    BY <1>3, WithUserSocks
  <2>2. /\ OwnSocks(n) /\ SeatsOnce(n) /\ HomeInv(n)
        /\ ListenInv(n) /\ UserInv(n) /\ SeatInv(n) /\ HungInv(n)
    BY DEF SocksInv, CalmInv
  <2>3. Player(j) = p /\ n.sock[s] = "open"
    OBVIOUS
  <2> HIDE DEF k, p, s
  <2>4. \A q \in Players, r \in Rooms : Seated(k, q, r) <=> Seated(n, q, r)
    BY <1>1 DEF Seated, SameRooms
  <2>5. OwnSocks(k)
    <3>1. ASSUME NEW y \in Joins, k.userSock[y] # NoSock PROVE Owner[k.userSock[y]] = Player(y)
      <4>1. CASE y = j
        BY <1>1, <2>1, <2>3, <4>1
      <4>2. CASE y # j
        BY <2>1, <2>2, <3>1, <4>2 DEF OwnSocks
      <4>3. QED
        BY <4>1, <4>2
    <3>2. QED
      BY <3>1 DEF OwnSocks
  <2>6. SeatsOnce(k) /\ HomeInv(k)
    BY <1>1, <2>2, <2>4 DEF SeatsOnce, HomeInv, SameRooms
  <2>7. n.listeners \in [Socks -> Seq(Joins)] /\ n.userSock \in [Joins -> Socks \cup {NoSock}]
    BY <1>1 DEF Nodes
  <2>8. ToSet(k.listeners[s]) = ToSet(n.listeners[s]) \cup {j}
    <3>1. n.listeners[s] \in Seq(Joins)
      BY <1>1, <2>7
    <3>2. QED
      BY <2>1, <3>1, ToSetAppend
  <2>9. ASSUME NEW q \in Socks PROVE ToSet(n.listeners[q]) \subseteq ToSet(k.listeners[q])
    BY <2>1, <2>8
  <2>10. ListenInv(k)
    <3>1. ASSUME NEW q \in Socks, NEW i \in 1..Len(k.listeners[q])
          PROVE  Player(k.listeners[q][i]) = Owner[q]
      <4>1. CASE q = s
        <5> DEFINE l == n.listeners[s]
        <5>1. /\ l \in Seq(Joins) /\ k.listeners[q] = Append(l, j)
              /\ \A h \in 1..Len(l) : Player(l[h]) = Owner[s]
          BY <1>1, <2>1, <2>2, <2>7, <4>1 DEF ListenInv
        <5> HIDE DEF l
        <5>2. i \in 1..Len(Append(l, j))
          BY <5>1
        <5>3. CASE i \in 1..Len(l)
          BY <4>1, <5>1, <5>3
        <5>4. CASE i \notin 1..Len(l)
          BY <1>1, <2>3, <4>1, <5>1, <5>2, <5>4
        <5>5. QED
          BY <5>3, <5>4
      <4>2. CASE q # s
        BY <2>1, <2>2, <3>1, <4>2 DEF ListenInv
      <4>3. QED
        BY <4>1, <4>2
    <3>2. ASSUME NEW y \in Joins, k.userSock[y] # NoSock
          PROVE  y \in ToSet(k.listeners[k.userSock[y]])
      <4>1. CASE y = j
        BY <2>1, <2>8, <4>1
      <4>2. CASE y # j
        <5>1. k.userSock[y] = n.userSock[y] /\ n.userSock[y] \in Socks
          BY <2>1, <2>7, <3>2, <4>2
        <5>2. y \in ToSet(n.listeners[n.userSock[y]])
          BY <2>2, <3>2, <5>1 DEF ListenInv
        <5>3. QED
          BY <2>9, <5>1, <5>2
      <4>3. QED
        BY <4>1, <4>2
    <3>3. QED
      BY <3>1, <3>2 DEF ListenInv
  <2>11. UserInv(k)
    <3>1. ASSUME NEW q \in Players, k.users[q] # 0
          PROVE  k.userSock[k.users[q]] # NoSock /\ k.sock[k.userSock[k.users[q]]] # "closed"
      <4>1. CASE q = p
        <5>1. NoSock \notin Socks
          BY DEF LifecycleAssumption
        <5>2. QED
          BY <1>1, <2>1, <2>3, <4>1, <5>1
      <4>2. CASE q # p
        <5>1. k.users[q] = n.users[q] /\ n.users[q] \in Joins /\ Player(n.users[q]) = q
          BY <1>1, <2>1, <3>1, <4>2 DEF GoodNodes, Nodes, Objects, FiledInv
        <5>2. n.users[q] # j
          BY <2>3, <4>2, <5>1
        <5>3. QED
          BY <2>1, <2>2, <3>1, <5>1, <5>2 DEF UserInv
      <4>3. QED
        BY <4>1, <4>2
    <3>2. QED
      BY <3>1 DEF UserInv
  <2>12. SeatInv(k)
    <3> SUFFICES ASSUME OneRoomEach, NEW q \in Players, NEW r \in Rooms, Seated(k, q, r)
                 PROVE  \E x \in Joins :
                          /\ Player(x) = q /\ k.userRoom[x] = r
                          /\ \E t \in Socks : /\ x \in ToSet(k.listeners[t])
                                              /\ k.sock[t] # "closed"
      BY DEF SeatInv
    <3>1. PICK x \in Joins :
            /\ Player(x) = q /\ n.userRoom[x] = r
            /\ \E t \in Socks : x \in ToSet(n.listeners[t]) /\ n.sock[t] # "closed"
      BY <2>2, <2>4 DEF SeatInv
    <3>2. PICK t \in Socks : x \in ToSet(n.listeners[t]) /\ n.sock[t] # "closed"
      BY <3>1
    <3>3. x \in ToSet(k.listeners[t])
      BY <2>9, <3>2
    <3>4. QED
      BY <2>1, <3>1, <3>2, <3>3
  <2>13. HungInv(k)
    <3>1. \A q \in Players : Hung(n, q) => Hung(k, q)
      BY <2>1 DEF Hung
    <3>2. s # NoSock
      BY <1>1 DEF LifecycleAssumption
    <3>3. ASSUME NEW y \in Joins, k.timer[y], k.userSock[y] = NoSock PROVE Hung(k, Player(y))
      <4>1. y # j
        BY <2>1, <3>2, <3>3
      <4>2. n.timer[y] /\ n.userSock[y] = NoSock
        BY <2>1, <3>3, <4>1
      <4>3. QED
        BY <2>2, <3>1, <4>2, PlayerOf DEF HungInv
    <3>4. ASSUME NEW q \in Players, NEW r \in Rooms, Seated(k, q, r)
          PROVE  k.users[q] # 0 \/ Hung(k, q)
      <4>1. CASE q = p
        BY <1>1, <2>1, <4>1
      <4>2. CASE q # p
        <5>1. k.users[q] = n.users[q]
          BY <2>1, <4>2
        <5>2. Seated(n, q, r)
          BY <2>4, <3>4
        <5>3. QED
          BY <2>2, <3>1, <5>1, <5>2 DEF HungInv
      <4>3. QED
        BY <4>1, <4>2
    <3>5. QED
      BY <3>3, <3>4 DEF HungInv
  <2>14. SocksInv(k)
    BY <2>5, <2>6, <2>10, <2>11, <2>12, <2>13 DEF SocksInv, CalmInv
  <2>15. QED
    BY <2>14 DEF k
<1>4. QED
  BY <1>2, <1>3

\* A new Room object is empty.
LEMMA WithRoomParts ==
  ASSUME LifecycleAssumption, NEW K, NEW n \in GoodNodes(K), NEW j \in Joins,
         NEW r \in Rooms, r \in K, n.roomId[j] = NoRoom
  PROVE  Parts(WithRoom(n, j, r), n)
<1> DEFINE k == WithRoom(n, j, r)
<1>1. n \in Nodes
  BY DEF GoodNodes
<1>2. /\ k.users = n.users /\ k.members = n.members
      /\ \A q \in Rooms : k.rooms[q] = n.rooms[q] \/ (q = r /\ k.rooms[q] = j)
  BY WithRoomGood
<1>3. SameSocks(k, n) /\ k.userRoom = n.userRoom
  BY <1>1 DEF WithRoom, NewRoom, SameSocks, Nodes
<1>4. n.members[j] = << >>
  BY DEF GoodNodes, BlankInv
<1> HIDE DEF k
<1>5. ToSet(n.members[j]) = {}
  BY <1>4 DEF ToSet
<1>6. ASSUME NEW p \in Players, NEW q \in Rooms, Seated(k, p, q) PROVE Seated(n, p, q)
  BY <1>2, <1>5, <1>6 DEF Seated
<1>7. Vacates(k, n)
  BY <1>3, <1>6 DEF Vacates
<1>8. SeatsOnce(n) => SeatsOnce(k)
  BY <1>2 DEF SeatsOnce
<1>9. QED
  BY <1>2, <1>3, <1>7, <1>8 DEF Parts, SameSocks, k

\* A player takes a seat in the room of the appointment, and the User object has the room.
LEMMA ArrivedKeeps ==
  ASSUME LifecycleAssumption, NEW K, NEW n \in GoodNodes(K), SocksInv(n),
         NEW j \in Joins, NEW r \in Rooms, NEW o \in Joins, n.roomId[o] = r,
         Player(j) \in Expect[r], NEW x \in Joins, n.users[Player(j)] = x,
         \A i \in 1..Len(n.members[o]) : n.members[o][i] # Player(j)
  PROVE  SocksInv(Arrived(n, j, x, o))
<1> DEFINE k == Arrived(n, j, x, o)
           p == Player(j)
<1>1. /\ n \in Nodes /\ k \in Nodes /\ p \in Players /\ Player(x) = p /\ x # 0
      /\ r # NoRoom /\ FiledInv(n)
  <2>1. r # NoRoom
    BY DEF LifecycleAssumption
  <2>2. k \in GoodNodes(K) /\ p \in Players /\ x # 0
    BY <2>1, ArrivedGood, PlayerOf, JoinNumbers
  <2>3. Player(x) = p
    BY <2>2 DEF GoodNodes, FiledInv
  <2>4. QED
    BY <2>1, <2>2, <2>3 DEF GoodNodes
<1>2. /\ k.members[o] = Append(n.members[o], p)
      /\ \A q \in Joins \ {o} : k.members[q] = n.members[q]
  BY <1>1, ArrivedTalks
<1>3. /\ SameSocks(k, n) /\ k.users = n.users /\ k.rooms = n.rooms
      /\ k.userRoom = [n.userRoom EXCEPT ![x] = r]
  BY <1>1 DEF Arrived, SameSocks, Nodes
<1>4. k.userRoom[x] = r /\ \A y \in Joins \ {x} : k.userRoom[y] = n.userRoom[y]
  BY <1>1, <1>3 DEF Nodes
<1>5. /\ OwnSocks(n) /\ SeatsOnce(n) /\ HomeInv(n) /\ ListenInv(n) /\ HungInv(n)
      /\ UserInv(n) /\ SeatInv(n)
  BY DEF SocksInv, CalmInv
<1>6. p \in Expect[r] /\ n.users[p] = x /\ \A i \in 1..Len(n.members[o]) : n.members[o][i] # p
  OBVIOUS
<1> HIDE DEF k, p
<1>7. ASSUME NEW q \in Players, NEW v \in Rooms, Seated(k, q, v)
      PROVE  Seated(n, q, v) \/ (q = p /\ v = r)
  <2>1. n.rooms[v] # 0 /\ n.rooms[v] \in Joins /\ n.roomId[n.rooms[v]] = v
    BY <1>1, <1>3, <1>7 DEF Seated, FiledInv, Nodes, Objects
  <2>2. CASE n.rooms[v] = o
    <3> DEFINE l == n.members[o]
    <3>1. l \in Seq(Players)
      BY <1>1 DEF Nodes
    <3> HIDE DEF l
    <3>2. ToSet(Append(l, p)) = ToSet(l) \cup {p}
      BY <1>1, <3>1, ToSetAppend
    <3>3. q \in ToSet(Append(l, p))
      BY <1>2, <1>3, <1>7, <2>2 DEF Seated, l
    <3>4. QED
      BY <2>1, <2>2, <3>2, <3>3 DEF Seated, l
  <2>3. CASE n.rooms[v] # o
    BY <1>2, <1>3, <1>7, <2>1, <2>3 DEF Seated
  <2>4. QED
    BY <2>2, <2>3
<1>8. SeatsOnce(k)
  <2> SUFFICES ASSUME NEW q \in Joins PROVE Distinct(k.members[q])
    BY DEF SeatsOnce
  <2>1. CASE q = o
    <3>1. n.members[o] \in Seq(Players) /\ Distinct(n.members[o])
      BY <1>1, <1>5 DEF Nodes, SeatsOnce
    <3> DEFINE l == n.members[o]
    <3>2. l \in Seq(Players) /\ Distinct(l) /\ \A i \in 1..Len(l) : l[i] # p
      BY <1>6, <3>1
    <3> HIDE DEF l
    <3>3. Distinct(Append(l, p))
      BY <1>1, <3>2, DistinctAppend
    <3>4. QED
      BY <1>2, <2>1, <3>3 DEF l
  <2>2. CASE q # o
    BY <1>2, <1>5, <2>2 DEF SeatsOnce
  <2>3. QED
    BY <2>1, <2>2
<1>9. HomeInv(k)
  BY <1>5, <1>6, <1>7 DEF HomeInv
<1>10. OwnSocks(k) /\ ListenInv(k) /\ UserInv(k)
  BY <1>3, <1>5 DEF OwnSocks, ListenInv, UserInv, SameSocks
<1>11. HungInv(k)
  <2>1. \A q \in Players : Hung(k, q) <=> Hung(n, q)
    BY <1>3 DEF Hung, SameSocks
  <2>2. ASSUME NEW q \in Players, NEW v \in Rooms, Seated(k, q, v)
        PROVE  k.users[q] # 0 \/ Hung(k, q)
    <3>1. CASE q = p
      BY <1>1, <1>3, <1>6, <3>1
    <3>2. CASE q # p
      BY <1>3, <1>5, <1>7, <2>1, <2>2, <3>2 DEF HungInv
    <3>3. QED
      BY <3>1, <3>2
  <2>3. QED
    BY <1>3, <1>5, <2>1, <2>2, PlayerOf DEF HungInv, SameSocks
<1>12. SeatInv(k)
  <2> SUFFICES ASSUME OneRoomEach, NEW q \in Players, NEW v \in Rooms, Seated(k, q, v)
               PROVE  \E y \in Joins :
                        /\ Player(y) = q /\ k.userRoom[y] = v
                        /\ \E t \in Socks : /\ y \in ToSet(k.listeners[t])
                                            /\ k.sock[t] # "closed"
    BY DEF SeatInv
  <2>1. k.sock = n.sock /\ k.listeners = n.listeners
    BY <1>3 DEF SameSocks
  <2>2. CASE q = p
    <3>1. v = r
      BY <1>5, <1>6, <1>7, <2>2 DEF HomeInv, OneRoomEach
    <3>2. /\ n.userSock[x] # NoSock /\ n.sock[n.userSock[x]] # "closed"
          /\ n.userSock[x] \in Socks
      BY <1>1, <1>5, <1>6, ZenonT(60) DEF UserInv, Nodes
    <3>3. x \in ToSet(n.listeners[n.userSock[x]])
      BY <1>5, <3>2 DEF ListenInv
    <3>4. QED
      BY <1>1, <1>4, <2>1, <2>2, <3>1, <3>2, <3>3
  <2>3. CASE q # p
    <3>1. PICK y \in Joins :
            /\ Player(y) = q /\ n.userRoom[y] = v
            /\ \E t \in Socks : y \in ToSet(n.listeners[t]) /\ n.sock[t] # "closed"
      BY <1>5, <1>7, <2>3 DEF SeatInv
    <3>2. y # x
      BY <1>1, <2>3, <3>1
    <3>3. QED
      BY <1>4, <2>1, <3>1, <3>2
  <2>4. QED
    BY <2>2, <2>3
<1>13. SocksInv(k)
  BY <1>8, <1>9, <1>10, <1>11, <1>12 DEF SocksInv, CalmInv
<1>14. QED
  BY <1>13 DEF k

-----------------------------------------------------------------------------
(* The players of a room and their connections, in each step.              *)

\* A player's mapping is to a room of the player's.
MapInv == \A p \in Players : user2room[p] # NoRoom => p \in Expect[user2room[p]]

SocksKept == SocksInv(Node) => SocksInv(Node)'

LEMMA PartsStep ==
  ASSUME LifecycleAssumption, LifeInv, NEW n \in Nodes, Becomes(n),
         SocksInv(Node) => Parts(n, Node)
  PROVE  SocksKept
<1>1. Node' = n /\ Node \in Nodes
  BY BecomesIs, NodeGood
<1>2. QED
  BY <1>1, PartsKeep DEF SocksKept

LEMMA SocksInit == ASSUME LifecycleAssumption, Init PROVE SocksInv(Node)
<1>1. /\ \A x \in Joins : userSock[x] = NoSock /\ members[x] = << >> /\ ~timer[x]
      /\ \A s \in Socks : listeners[s] = << >>
      /\ \A p \in Players : users[p] = 0
      /\ \A r \in Rooms : rooms[r] = 0
  BY DEF Init
<1>2. Distinct(<< >>)
  BY DEF Distinct
<1>3. OwnSocks(Node) /\ SeatsOnce(Node)
  BY <1>1, <1>2, NodeIs DEF OwnSocks, SeatsOnce
<1>4. \A p \in Players, r \in Rooms : ~Seated(Node, p, r)
  BY <1>1, NodeIs DEF Seated
<1>5. HomeInv(Node) /\ SeatInv(Node)
  BY <1>4 DEF HomeInv, SeatInv
<1>6. ListenInv(Node)
  BY <1>1, NodeIs DEF ListenInv
<1>7. UserInv(Node)
  BY <1>1, NodeIs DEF UserInv
<1>8. HungInv(Node)
  BY <1>1, <1>4, NodeIs DEF HungInv
<1>9. QED
  BY <1>3, <1>5, <1>6, <1>7, <1>8 DEF SocksInv, CalmInv

LEMMA AppointSocks ==
  ASSUME LifecycleAssumption, LifeInv, NEW r \in Rooms, Appoint(r)
  PROVE  SocksKept
<1>1. UNCHANGED <<listeners, sock, userSock, timer, users, userRoom, rooms, members>>
  BY DEF Appoint, Becomes, SetWorkTypes, Node
<1>2. Node \in Nodes /\ Node' \in Nodes
  BY NodeGood, AppointLife DEF LifeInv, GoodNodes
<1>3. SameSeats(Node', Node)
  BY <1>1 DEF Node, SameSeats, SameSocks
<1>4. Parts(Node', Node)
  BY <1>2, <1>3, SameParts DEF SameSeats
<1>5. QED
  BY <1>2, <1>4, PartsKeep DEF SocksKept

LEMMA TimerKeeps ==
  ASSUME NEW n \in Nodes, NEW x \in Joins, SocksInv(n)
  PROVE  SocksInv([n EXCEPT !.timer[x] = FALSE])
<1> DEFINE w == [n.timer EXCEPT ![x] = FALSE]
           k == [n EXCEPT !.timer = w]
<1>1. \A y \in Joins : w[y] => n.timer[y]
  BY DEF Nodes
<1>2. [n EXCEPT !.timer[x] = FALSE] = k
  OBVIOUS
<1> HIDE DEF w
<1>3. /\ k.listeners = n.listeners /\ k.sock = n.sock /\ k.userSock = n.userSock
      /\ k.users = n.users /\ k.userRoom = n.userRoom
      /\ k.rooms = n.rooms /\ k.members = n.members /\ k.timer = w
  BY DEF Nodes
<1> HIDE DEF k
<1>4. OwnSocks(k) /\ SeatsOnce(k) /\ ListenInv(k) /\ UserInv(k)
  BY <1>3 DEF SocksInv, CalmInv, OwnSocks, SeatsOnce, ListenInv, UserInv
<1>5. \A p \in Players, r \in Rooms : Seated(k, p, r) <=> Seated(n, p, r)
  BY <1>3 DEF Seated
<1>6. HomeInv(k) /\ SeatInv(k)
  BY <1>3, <1>5 DEF SocksInv, CalmInv, HomeInv, SeatInv
<1>7. HungInv(k)
  <2>1. HungInv(n)
    BY DEF SocksInv, CalmInv
  <2>2. \A p : Hung(k, p) <=> Hung(n, p)
    BY <1>3 DEF Hung
  <2>3. QED
    BY <1>1, <1>3, <1>5, <2>1, <2>2 DEF HungInv
<1>8. QED
  BY <1>2, <1>4, <1>6, <1>7 DEF SocksInv, CalmInv

LEMMA HeartStopsSocks ==
  ASSUME LifecycleAssumption, LifeInv, NEW x \in Joins, HeartStops(x)
  PROVE  SocksKept
<1> DEFINE a == [Node EXCEPT !.timer[x] = FALSE]
<1>1. Becomes(a)
  BY DEF HeartStops
<1>2. Node \in Nodes
  BY NodeGood
<1>3. a \in Nodes /\ (SocksInv(Node) => SocksInv(a))
  BY <1>2, SetTimerIs, TimerKeeps
<1> HIDE DEF a
<1>4. Node' = a
  BY <1>1, <1>3, BecomesIs
<1>5. QED
  BY <1>3, <1>4 DEF SocksKept

\* A User object whose heart timer runs has a socket, or had one.
LEMMA HeartTimeoutSocks ==
  ASSUME LifecycleAssumption, LifeInv, NEW x \in Joins, HeartTimeout(x)
  PROVE  SocksKept
<1> DEFINE d == DoLogout(Node, x)
           a == [d EXCEPT !.timer[x] = FALSE]
<1>1. Becomes(a) /\ timer[x]
  BY DEF HeartTimeout
<1>2. Node \in GoodNodes(roomMap) /\ Node \in Nodes /\ Node.timer = timer
  BY NodeGood, NodeIs
<1>3. SUFFICES ASSUME SocksInv(Node) PROVE SocksInv(Node')
  BY DEF SocksKept
<1>4. /\ OwnSocks(Node) /\ SeatsOnce(Node) /\ HomeInv(Node)
      /\ Node.userSock[x] # NoSock \/ Hung(Node, Player(x))
  BY <1>1, <1>2, <1>3 DEF SocksInv, CalmInv, HungInv
<1>5. Parts(d, Node) /\ d \in Nodes
  BY <1>2, <1>4, DoLogoutParts, DoLogoutGood DEF GoodNodes
<1> HIDE DEF d
<1>6. SocksInv(d)
  BY <1>2, <1>3, <1>5, PartsKeep
<1>7. a \in Nodes /\ SocksInv(a)
  BY <1>5, <1>6, SetTimerIs, TimerKeeps
<1> HIDE DEF a
<1>8. QED
  BY <1>1, <1>7, BecomesIs

\* Only the state of a socket changes.
SockSet(k, n, s, how) ==
  /\ k.sock[s] = how /\ \A t \in Socks \ {s} : k.sock[t] = n.sock[t]
  /\ k.listeners = n.listeners /\ k.userSock = n.userSock /\ k.timer = n.timer
  /\ k.users = n.users /\ k.userRoom = n.userRoom
  /\ k.rooms = n.rooms /\ k.members = n.members

LEMMA SetSockKeeps ==
  ASSUME NEW n \in Nodes, NEW s \in Socks, NEW how \in {"closing", "closed"}
  PROVE  SockSet([n EXCEPT !.sock[s] = how], n, s, how)
<1> DEFINE v == [n.sock EXCEPT ![s] = how]
           a == [n EXCEPT !.sock = v]
<1>1. v[s] = how /\ \A t \in Socks \ {s} : v[t] = n.sock[t]
  BY DEF Nodes
<1>2. [n EXCEPT !.sock[s] = how] = a
  OBVIOUS
<1> HIDE DEF v
<1>3. /\ a.sock = v /\ a.listeners = n.listeners /\ a.userSock = n.userSock
      /\ a.timer = n.timer /\ a.users = n.users /\ a.userRoom = n.userRoom
      /\ a.rooms = n.rooms /\ a.members = n.members
  BY DEF Nodes
<1> HIDE DEF a
<1>4. QED
  BY <1>1, <1>2, <1>3 DEF SockSet

LEMMA ClosingParts ==
  ASSUME NEW n \in Nodes, NEW s \in Socks, n.sock[s] = "open"
  PROVE  Parts([n EXCEPT !.sock[s] = "closing"], n)
<1> DEFINE a == [n EXCEPT !.sock[s] = "closing"]
<1>1. SockSet(a, n, s, "closing")
  BY SetSockKeeps
<1> HIDE DEF a
<1>2. Vacates(a, n)
  BY <1>1 DEF SockSet, Vacates, Seated
<1>3. ASSUME NEW t \in Socks
      PROVE  /\ a.sock[t] = "closed" <=> n.sock[t] = "closed"
             /\ a.sock[t] = "open" => n.sock[t] = "open"
  BY <1>1 DEF SockSet
<1>4. SeatsOnce(n) => SeatsOnce(a)
  BY <1>1 DEF SockSet, SeatsOnce
<1>5. Parts(a, n)
  BY <1>1, <1>2, <1>3, <1>4 DEF SockSet, Parts
<1>6. QED
  BY <1>5 DEF a

LEMMA PeerClosesSocks ==
  ASSUME LifecycleAssumption, LifeInv, NEW s \in Socks, PeerCloses(s)
  PROVE  SocksKept
<1> DEFINE a == [Node EXCEPT !.sock[s] = "closing"]
<1>1. Becomes(a) /\ Node.sock[s] = "open" /\ Node \in Nodes
  BY NodeGood, NodeIs DEF PeerCloses
<1>2. a \in Nodes /\ Parts(a, Node)
  BY <1>1, SetSockIs, ClosingParts
<1> HIDE DEF a
<1>3. QED
  BY <1>1, <1>2, PartsStep

LEMMA SocketFailsSocks ==
  ASSUME LifecycleAssumption, LifeInv, NEW s \in Socks, SocketFails(s)
  PROVE  SocksKept
<1> DEFINE a == [Node EXCEPT !.sock[s] = "closing"]
           k == DisconnectAll(a, listeners[s])
<1>1. Becomes(k) /\ Node.sock[s] = "open" /\ UNCHANGED <<matchVars, joinVars>>
  BY NodeIs DEF SocketFails, SocketEvent
<1>2. /\ Node \in GoodNodes(roomMap) /\ Node \in Nodes /\ Node.listeners = listeners
      /\ listeners[s] \in Seq(Joins)
  BY NodeGood, NodeIs DEF Nodes
<1>3. /\ a \in GoodNodes(roomMap) /\ a \in Nodes /\ Parts(a, Node)
      /\ SockSet(a, Node, s, "closing")
  <2>1. /\ a \in Nodes /\ SameRooms(a, Node) /\ SameTalk(a, Node) /\ a.users = Node.users
        /\ Parts(a, Node) /\ SockSet(a, Node, s, "closing")
    BY <1>1, <1>2, SetSockIs, SetSockKeeps, ClosingParts
  <2> HIDE DEF a
  <2>2. QED
    BY <1>2, <2>1, SameRoomsStay
<1> HIDE DEF a
<1>4. SUFFICES ASSUME SocksInv(Node) PROVE SocksInv(Node')
  BY DEF SocksKept
<1>5. OwnSocks(a) /\ SeatsOnce(a) /\ HomeInv(a)
  BY <1>2, <1>3, <1>4, PartsCalm DEF SocksInv, CalmInv
<1>6. \A i \in 1..Len(listeners[s]) : Hung(a, Player(listeners[s][i]))
  BY <1>2, <1>3, <1>4 DEF SocksInv, CalmInv, ListenInv, Hung, SockSet
<1>7. k \in Nodes /\ Parts(k, a)
  BY <1>2, <1>3, <1>5, <1>6, DisconnectAllGood, DisconnectAllParts DEF GoodNodes
<1> HIDE DEF k
<1>8. SocksInv(k)
  BY <1>2, <1>3, <1>4, <1>7, PartsKeep
<1>9. QED
  BY <1>1, <1>7, <1>8, BecomesIs

\* The close event of a socket logs its player out, as each User object that listens has
\* the player: those that are left have another socket whose close event is to come.
LEMMA ClosedKeeps ==
  ASSUME LifecycleAssumption, NEW K, NEW n \in GoodNodes(K), NEW s \in Socks,
         SocksInv(n)
  PROVE  LET k == DisconnectAll([n EXCEPT !.sock[s] = "closed"], n.listeners[s])
         IN k \in Nodes /\ SocksInv(k)
<1> DEFINE a  == [n EXCEPT !.sock[s] = "closed"]
           xs == n.listeners[s]
           k  == DisconnectAll(a, xs)
<1>1. n \in Nodes /\ xs \in Seq(Joins)
  BY DEF GoodNodes, Nodes
<1>2. SockSet(a, n, s, "closed")
  BY <1>1, SetSockKeeps
<1>3. a \in GoodNodes(K) /\ a \in Nodes
  <2>1. a \in Nodes /\ SameRooms(a, n) /\ SameTalk(a, n) /\ a.users = n.users
    BY <1>1, SetSockIs
  <2> HIDE DEF a
  <2>2. QED
    BY <1>1, <2>1, SameRoomsStay
<1> HIDE DEF a, xs
<1>4. /\ a.sock[s] = "closed" /\ \A t \in Socks \ {s} : a.sock[t] = n.sock[t]
      /\ a.listeners = n.listeners /\ a.userSock = n.userSock /\ a.timer = n.timer
      /\ a.users = n.users /\ a.userRoom = n.userRoom
      /\ a.rooms = n.rooms /\ a.members = n.members
  BY <1>2 DEF SockSet
<1>5. /\ OwnSocks(n) /\ SeatsOnce(n) /\ HomeInv(n) /\ ListenInv(n) /\ HungInv(n)
      /\ UserInv(n) /\ SeatInv(n)
  BY DEF SocksInv, CalmInv
<1>6. /\ \A p \in Players, r \in Rooms : Seated(a, p, r) <=> Seated(n, p, r)
      /\ \A p : Hung(n, p) => Hung(a, p)
  BY <1>4 DEF Seated, Hung
<1>7. CalmInv(a)
  <2>1. OwnSocks(a) /\ SeatsOnce(a) /\ HomeInv(a)
    BY <1>4, <1>5, <1>6 DEF OwnSocks, SeatsOnce, HomeInv
  <2>2. ListenInv(a)
    BY <1>4, <1>5 DEF ListenInv
  <2>3. HungInv(a)
    BY <1>4, <1>5, <1>6 DEF HungInv
  <2>4. QED
    BY <2>1, <2>2, <2>3 DEF CalmInv
<1>8. /\ \A i \in 1..Len(xs) : Player(xs[i]) = Owner[s]
      /\ \A i \in 1..Len(xs) : Hung(a, Player(xs[i]))
  BY <1>4, <1>5 DEF ListenInv, Hung, xs
<1>9. k \in Nodes /\ Parts(k, a) /\ \A i \in 1..Len(xs) : Out(k, xs[i])
  BY <1>1, <1>3, <1>7, <1>8, DisconnectAllGood, DisconnectAllParts DEF GoodNodes, CalmInv
<1> HIDE DEF k
<1>10. CalmInv(k)
  BY <1>3, <1>7, <1>9, PartsCalm
<1>11. ASSUME NEW x \in ToSet(xs) PROVE Out(k, x)
  <2>1. PICK i \in 1..Len(xs) : x = xs[i]
    BY <1>1, InToSet
  <2>2. QED
    BY <1>9, <2>1
<1>12. \A t \in Socks \ {s} : k.sock[t] = "closed" => n.sock[t] = "closed"
  BY <1>4, <1>9 DEF Parts
<1>13. UserInv(k)
  <2> SUFFICES ASSUME NEW p \in Players, k.users[p] # 0
               PROVE  /\ k.userSock[k.users[p]] # NoSock
                      /\ k.sock[k.userSock[k.users[p]]] # "closed"
    BY DEF UserInv
  <2> DEFINE x == n.users[p]
             t == n.userSock[x]
  <2>1. k.users[p] = x /\ k.userSock[k.users[p]] = t
    BY <1>4, <1>9 DEF Parts
  <2>2. x # 0 /\ t # NoSock /\ n.sock[t] # "closed"
    BY <1>5, <2>1 DEF UserInv
  <2>3. x \in Joins /\ Player(x) = p
    BY <1>1, <2>2 DEF GoodNodes, Nodes, Objects, FiledInv
  <2> HIDE DEF x
  <2>4. t \in Socks
    BY <1>1, <2>2, <2>3 DEF Nodes
  <2> HIDE DEF t
  <2>5. t # s
    <3> SUFFICES ASSUME t = s PROVE FALSE
      OBVIOUS
    <3>1. x \in ToSet(xs)
      BY <1>5, <2>2, <2>3 DEF ListenInv, xs, t
    <3>2. k.users[p] = 0
      BY <1>11, <2>3, <3>1 DEF Out
    <3>3. QED
      BY <3>2
  <2>6. QED
    BY <1>12, <2>1, <2>2, <2>4, <2>5
<1>14. SeatInv(k)
  <2> SUFFICES ASSUME OneRoomEach, NEW p \in Players, NEW r \in Rooms, Seated(k, p, r)
               PROVE  \E x \in Joins :
                        /\ Player(x) = p /\ k.userRoom[x] = r
                        /\ \E t \in Socks : /\ x \in ToSet(k.listeners[t])
                                            /\ k.sock[t] # "closed"
    BY DEF SeatInv
  <2>1. /\ Seated(n, p, r) /\ k.listeners = n.listeners
        /\ \A x \in Joins : Player(x) = p => k.userRoom[x] = n.userRoom[x]
    BY <1>4, <1>6, <1>9 DEF Parts, Vacates
  <2>2. PICK x \in Joins :
          /\ Player(x) = p /\ n.userRoom[x] = r
          /\ \E t \in Socks : x \in ToSet(n.listeners[t]) /\ n.sock[t] # "closed"
    BY <1>5, <2>1 DEF SeatInv
  <2>3. PICK t \in Socks : x \in ToSet(n.listeners[t]) /\ n.sock[t] # "closed"
    BY <2>2
  <2>4. t # s
    <3> SUFFICES ASSUME t = s PROVE FALSE
      OBVIOUS
    <3>1. Out(k, x)
      BY <1>11, <2>3 DEF xs
    <3>2. QED
      BY <2>1, <2>2, <3>1 DEF Out
  <2>5. QED
    BY <1>12, <2>1, <2>2, <2>3, <2>4
<1>15. QED
  BY <1>9, <1>10, <1>13, <1>14 DEF SocksInv, k, a, xs

LEMMA SocketClosesSocks ==
  ASSUME LifecycleAssumption, LifeInv, NEW s \in Socks, SocketCloses(s)
  PROVE  SocksKept
<1> DEFINE k == DisconnectAll([Node EXCEPT !.sock[s] = "closed"], Node.listeners[s])
<1>1. Becomes(k)
  BY NodeIs DEF SocketCloses, SocketEvent
<1>2. SUFFICES ASSUME SocksInv(Node) PROVE SocksInv(Node')
  BY DEF SocksKept
<1>3. k \in Nodes /\ SocksInv(k)
  BY <1>2, NodeGood, ClosedKeeps
<1> HIDE DEF k
<1>4. QED
  BY <1>1, <1>3, BecomesIs

LEMMA LeavesSocks ==
  ASSUME LifecycleAssumption, LifeInv, NEW x \in Joins, NEW p \in Players,
         Becomes(LeaveRoom(Node, userRoom[x], p))
  PROVE  SocksKept
<1> DEFINE k == LeaveRoom(Node, userRoom[x], p)
<1>1. Node \in GoodNodes(roomMap) /\ userRoom[x] \in Rooms \cup {NoRoom}
  BY NodeGood, NodeIs DEF Nodes
<1>2. k \in Nodes /\ k.users = Node.users
  BY <1>1, LeaveRoomGood DEF GoodNodes
<1>3. SocksInv(Node) => SameSocks(k, Node) /\ SeatsOnce(k) /\ Vacates(k, Node)
  BY <1>1, LeaveRoomParts DEF SocksInv, CalmInv
<1> HIDE DEF k
<1>4. SocksInv(Node) => Parts(k, Node)
  BY <1>2, <1>3 DEF Parts, SameSocks
<1>5. Becomes(k)
  BY DEF k
<1>6. QED
  BY <1>2, <1>4, <1>5, PartsStep

LEMMA GameClosesSocks ==
  ASSUME LifecycleAssumption, LifeInv, NEW r \in Rooms, GameCloses(r)
  PROVE  SocksKept
<1> DEFINE k == CloseRoom(Node, r)
<1>1. Becomes(k)
  BY DEF GameCloses
<1>2. k \in Nodes /\ (SocksInv(Node) => Parts(k, Node))
  BY NodeGood, CloseRoomGood, CloseRoomParts DEF GoodNodes
<1> HIDE DEF k
<1>3. QED
  BY <1>1, <1>2, PartsStep

LEMMA GameSendsSocks ==
  ASSUME LifecycleAssumption, LifeInv, NEW o \in Joins, GameSends(o)
  PROVE  SocksKept
<1> DEFINE i == sent[o] + 1
           m == Message(i, Says[i].to, Says[i].live)
           l == RoomSend(Node, o, m)
           k == [l EXCEPT !.sent[o] = i]
<1>1. i \in DOMAIN Says /\ Becomes(k)
  BY DEF GameSends
<1>2. i \in 0..Len(Says) /\ m \in Texts
  BY <1>1, SaidText
<1> HIDE DEF i, m
<1>3. l \in Nodes /\ SameSeats(l, Node)
  BY <1>2, NodeGood, RoomSendGood, RoomSendSeats DEF GoodNodes
<1> HIDE DEF l
<1>4. k \in Nodes
  BY <1>2, <1>3, SetSentIs
<1>5. SameSeats(k, l)
  BY <1>3 DEF SameSeats, SameSocks, Nodes
<1> HIDE DEF k
<1>6. SameSeats(k, Node)
  BY <1>3, <1>5, SameSeatsTwice
<1>7. Parts(k, Node)
  BY <1>4, <1>6, NodeGood, SameParts DEF SameSeats
<1>8. QED
  BY <1>1, <1>4, <1>7, PartsStep

\* Game.enter refuses a player who is in the room.
LEMMA EnterFinds ==
  ASSUME LifecycleAssumption, LifeInv, MapInv, Preloaded, SocksInv(Node), NEW j \in Joins,
         phase[j] = "idle", sock[JoinSock[j]] = "open", Enter(j)
  PROVE  LET m == WithUser(Node, j)
             r == user2room[Player(j)]
             x == m.users[Player(j)]
             n == WithRoom(m, j, r)
             o == n.rooms[r]
         IN /\ m \in GoodNodes(roomMap) /\ SocksInv(m)
            /\ \/ Becomes(m)
               \/ /\ Becomes(Complete(n, j, x, o))
                  /\ r \in Rooms /\ r \in roomMap /\ m.roomId[j] = NoRoom
                  /\ n \in GoodNodes(roomMap) /\ x \in Joins /\ o \in Joins
                  /\ n.roomId[o] = r /\ r # NoRoom /\ SocksInv(Arrived(n, j, x, o))
<1> DEFINE p == Player(j)
           r == user2room[p]
           m == WithUser(Node, j)
           x == m.users[p]
           n == WithRoom(m, j, r)
           o == n.rooms[r]
           c == Complete(n, j, x, o)
<1>1. /\ Node \in GoodNodes(roomMap) /\ JoinsInv /\ p \in Players /\ roomId[j] = NoRoom
      /\ Node.sock[JoinSock[j]] = "open"
  BY NodeGood, NodeIs, PlayerOf DEF LifeInv, JoinsInv
<1>2. m \in GoodNodes(roomMap) /\ m \in Nodes /\ m.roomId = roomId /\ x \in Joins
  BY <1>1, WithUserGood, NodeIs DEF SameRooms, GoodNodes
<1>3. Becomes(m) \/ (~Refused(m, x, p, r) /\ Becomes(c))
  BY DEF Enter
<1>5. SocksInv(m)
  BY <1>1, WithUserKeeps
<1> HIDE DEF m, p
<1>6. CASE Becomes(m)
  BY <1>2, <1>5, <1>6 DEF m
<1>7. CASE ~Refused(m, x, p, r) /\ Becomes(c)
  <2>1. r # NoRoom
    BY <1>7 DEF Refused
  <2>2. r \in roomMap /\ r \in Rooms /\ p \in Expect[r]
    BY <1>1, <2>1 DEF JoinsInv, MapInv
  <2>3. m.roomId[j] = NoRoom
    BY <1>1, <1>2
  <2>4. m.rooms[r] # 0 =>
          n = m /\ \A i \in DOMAIN m.members[m.rooms[r]] : m.members[m.rooms[r]][i] # p
    <3>1. m.rooms[r] # 0 => n = m
      BY DEF WithRoom
    <3> HIDE DEF n, x, o, c, r
    <3>2. m.rooms[r] # 0 =>
            \A i \in DOMAIN m.members[m.rooms[r]] : m.members[m.rooms[r]][i] # p
      BY <1>7 DEF Refused
    <3>3. QED
      BY <3>1, <3>2
  <2> HIDE DEF r, x
  <2>5. /\ n \in GoodNodes(roomMap) /\ o \in Joins /\ n.roomId[o] = r
        /\ n.members = m.members /\ n.users = m.users /\ Parts(n, m)
        /\ n.rooms[r] = m.rooms[r] \/ n.rooms[r] = j
    BY <1>2, <2>2, <2>3, WithRoomGood, WithRoomParts
  <2>6. n \in Nodes /\ SocksInv(n)
    BY <1>2, <1>5, <2>5, PartsKeep DEF GoodNodes
  <2>7. \A i \in 1..Len(n.members[o]) : n.members[o][i] # p
    <3>1. m.members[o] \in Seq(Players)
      BY <1>2, <2>5 DEF Nodes
    <3>2. CASE m.rooms[r] # 0
      <4>1. n = m /\ o = m.rooms[r]
        BY <2>4, <3>2
      <4>2. \A i \in DOMAIN m.members[m.rooms[r]] : m.members[m.rooms[r]][i] # p
        BY <2>4, <3>2
      <4> HIDE DEF n, o
      <4>3. QED
        BY <3>1, <4>1, <4>2
    <3>3. CASE m.rooms[r] = 0
      <4>1. o = j
        BY <2>5, <3>3, JoinNumbers
      <4>2. m.members[j] = << >>
        BY <1>2, <2>3 DEF GoodNodes, BlankInv
      <4>3. Len(n.members[o]) = 0
        BY <2>5, <4>1, <4>2
      <4>4. QED
        BY <4>3
    <3>4. QED
      BY <3>2, <3>3
  <2> HIDE DEF n, o
  <2>8. n.users[p] = x
    BY <2>5 DEF x
  <2>9. SocksInv(Arrived(n, j, x, o))
    BY <1>2, <2>2, <2>5, <2>6, <2>7, <2>8, ArrivedKeeps DEF p
  <2>10. QED
    BY <1>2, <1>5, <1>7, <2>1, <2>2, <2>3, <2>5, <2>9 DEF m, r, x, n, o, p
<1>8. QED
  BY <1>3, <1>6, <1>7

LEMMA EnterSocks ==
  ASSUME LifecycleAssumption, LifeInv, MapInv, Preloaded, NEW j \in Joins,
         phase[j] = "idle", sock[JoinSock[j]] = "open", Enter(j)
  PROVE  SocksKept
<1> DEFINE r == user2room[Player(j)]
           m == WithUser(Node, j)
           x == m.users[Player(j)]
           n == WithRoom(m, j, r)
           o == n.rooms[r]
           c == Complete(n, j, x, o)
<1>1. SUFFICES ASSUME SocksInv(Node) PROVE SocksInv(Node')
  BY DEF SocksKept
<1>2. /\ m \in GoodNodes(roomMap) /\ SocksInv(m)
      /\ \/ Becomes(m)
         \/ /\ Becomes(c) /\ n \in GoodNodes(roomMap) /\ x \in Joins /\ o \in Joins
            /\ n.roomId[o] # NoRoom /\ SocksInv(Arrived(n, j, x, o))
  BY <1>1, EnterFinds
<1> HIDE DEF m, x, n, o
<1>3. CASE Becomes(m)
  BY <1>2, <1>3, BecomesIs DEF GoodNodes
<1>4. CASE /\ Becomes(c) /\ n \in GoodNodes(roomMap) /\ x \in Joins /\ o \in Joins
           /\ n.roomId[o] # NoRoom /\ SocksInv(Arrived(n, j, x, o))
  <2>1. Arrived(n, j, x, o) \in Nodes
    BY <1>4, ArrivedGood DEF GoodNodes
  <2>2. c \in Nodes /\ SameSeats(c, Arrived(n, j, x, o))
    BY <1>4, CompleteGood, CompleteSeats DEF GoodNodes
  <2> HIDE DEF c
  <2>3. Parts(c, Arrived(n, j, x, o))
    BY <2>1, <2>2, SameParts DEF SameSeats
  <2>4. SocksInv(c)
    BY <1>4, <2>1, <2>2, <2>3, PartsKeep
  <2>5. QED
    BY <1>4, <2>2, <2>4, BecomesIs
<1>5. QED
  BY <1>2, <1>3, <1>4

LEMMA MapNext == LifeInv /\ MapInv /\ [Next]_vars => MapInv'
<1> SUFFICES ASSUME LifeInv, MapInv, [Next]_vars PROVE MapInv'
  OBVIOUS
<1>1. ASSUME NEW r \in Rooms, Appoint(r) PROVE MapInv'
  <2>1. user2room' = [p \in Players |-> IF p \in Expect[r] THEN r ELSE user2room[p]]
    BY <1>1 DEF Appoint, StoreResult
  <2>2. QED
    BY <2>1 DEF MapInv
<1>2. ASSUME user2room' = user2room PROVE MapInv'
  BY <1>2 DEF MapInv
<1>3. ASSUME NEW r \in Rooms, GameCloses(r) PROVE MapInv'
  BY <1>2, <1>3 DEF GameCloses, matchVars
<1>4. ASSUME NEW j \in Joins, JoinArrives(j) \/ CodeLoaded(j) \/ DataLoaded(j) \/ LoadFails(j)
      PROVE  MapInv'
  BY <1>2, <1>4 DEF JoinArrives, CodeLoaded, DataLoaded, LoadFails, matchVars
<1>5. ASSUME NEW s \in Socks, SocketCloses(s) \/ SocketFails(s) \/ PeerCloses(s)
      PROVE  MapInv'
  BY <1>2, <1>5 DEF SocketCloses, SocketFails, SocketEvent, PeerCloses, matchVars
<1>6. ASSUME NEW x \in Joins, HeartTimeout(x) \/ HeartStops(x) \/ LeaveRequest(x)
      PROVE  MapInv'
  BY <1>2, <1>6 DEF HeartTimeout, HeartStops, LeaveRequest, matchVars
<1>7. ASSUME NEW p \in Players, Matched(p) PROVE MapInv'
  BY <1>2, <1>7 DEF Matched, matchVars
<1>8. ASSUME NEW o \in Joins, GameSends(o) PROVE MapInv'
  BY <1>2, <1>8 DEF GameSends, matchVars
<1>9. CASE UNCHANGED vars
  BY <1>2, <1>9 DEF vars, matchVars
<1>10. QED
  BY <1>1, <1>3, <1>4, <1>5, <1>6, <1>7, <1>8, <1>9 DEF Next

LEMMA SocksNext ==
  ASSUME LifecycleAssumption, Preloaded, LifeInv, NoneWaits, MapInv, [Next]_vars
  PROVE  SocksKept
<1>1. ASSUME NEW r \in Rooms, Appoint(r) PROVE SocksKept
  BY <1>1, AppointSocks
<1>2. ASSUME NEW r \in Rooms, GameCloses(r) PROVE SocksKept
  BY <1>2, GameClosesSocks
<1>3. ASSUME NEW j \in Joins, JoinArrives(j) PROVE SocksKept
  BY <1>3, EnterSocks DEF JoinArrives
<1>4. ASSUME NEW j \in Joins, CodeLoaded(j) \/ DataLoaded(j) \/ LoadFails(j) PROVE FALSE
  BY <1>4 DEF CodeLoaded, DataLoaded, LoadFails, NoneWaits
<1>5. ASSUME NEW s \in Socks, SocketCloses(s) PROVE SocksKept
  BY <1>5, SocketClosesSocks
<1>6. ASSUME NEW s \in Socks, SocketFails(s) PROVE SocksKept
  BY <1>6, SocketFailsSocks
<1>7. ASSUME NEW s \in Socks, PeerCloses(s) PROVE SocksKept
  BY <1>7, PeerClosesSocks
<1>8. ASSUME NEW x \in Joins, HeartTimeout(x) PROVE SocksKept
  BY <1>8, HeartTimeoutSocks
<1>9. ASSUME NEW x \in Joins, HeartStops(x) PROVE SocksKept
  BY <1>9, HeartStopsSocks
<1>10. ASSUME NEW x \in Joins, LeaveRequest(x) PROVE SocksKept
  BY <1>10, PlayerOf, LeavesSocks DEF LeaveRequest
<1>11. ASSUME NEW p \in Players, Matched(p) PROVE SocksKept
  <2>1. users[p] \in Joins
    BY <1>11, NodeGood, NodeIs DEF Matched, Nodes, Objects
  <2>2. QED
    BY <1>11, <2>1, LeavesSocks DEF Matched
<1>12. ASSUME NEW o \in Joins, GameSends(o) PROVE SocksKept
  BY <1>12, GameSendsSocks
<1>13. CASE UNCHANGED vars
  <2>1. Node' = Node
    BY <1>13 DEF vars, Node, nodeVars
  <2>2. QED
    BY <2>1 DEF SocksKept
<1>14. QED
  BY <1>1, <1>2, <1>3, <1>4, <1>5, <1>6, <1>7, <1>8, <1>9, <1>10, <1>11, <1>12, <1>13
     DEF Next

LEMMA SocksAlways ==
  ASSUME Preloaded
  PROVE  Spec => [](LifeInv /\ SocksInv(Node))
<1>1. Init => MapInv /\ SocksInv(Node)
  BY LifecycleAssumption, SocksInit DEF Init, MapInv
<1>2. LifeInv /\ NoneWaits /\ MapInv /\ SocksInv(Node) /\ [Next]_vars => SocksInv(Node)'
  BY LifecycleAssumption, SocksNext DEF SocksKept
<1>3. QED
  BY <1>1, <1>2, MapNext, LifeAlways, NoneWaitsAlways, PTL DEF Spec

\* A player whose connections are all closed is neither in userMgr nor in a room: whichever
\* of close, error, heart time-out, leaving, rematching and closing came before, in
\* whatever order, the last close event finds a User object that takes the player out.  It
\* takes that Game.enter does not wait (ghost shows what happens when it does), and that no
\* player is appointed for two rooms: a late event of an old connection would remove the
\* User object that has the second one.
THEOREM DisconnectedGone ==
  ASSUME Preloaded, OneRoomEach
  PROVE  Spec => []DisconnectRemoves
<1>1. LifeInv /\ SocksInv(Node) => DisconnectRemoves
  <2> SUFFICES ASSUME LifeInv, SocksInv(Node), NEW p \in Players,
                      \A s \in Socks : Owner[s] = p => sock[s] = "closed"
               PROVE  users[p] = 0 /\ \A r \in Rooms : ~IsIn(p, r)
    BY DEF DisconnectRemoves
  <2>1. /\ Node \in GoodNodes(roomMap) /\ Node \in Nodes
        /\ OwnSocks(Node) /\ ListenInv(Node) /\ UserInv(Node) /\ SeatInv(Node)
    BY NodeGood DEF SocksInv, CalmInv
  <2>2. users[p] = 0
    <3> SUFFICES ASSUME users[p] # 0 PROVE FALSE
      OBVIOUS
    <3>1. users[p] \in Joins /\ Player(users[p]) = p
      BY <2>1, NodeIs DEF GoodNodes, Nodes, Objects, FiledInv
    <3>2. userSock[users[p]] # NoSock /\ sock[userSock[users[p]]] # "closed"
      BY <2>1, NodeIs DEF UserInv
    <3>3. userSock[users[p]] \in Socks /\ Owner[userSock[users[p]]] = p
      BY <2>1, <3>1, <3>2, NodeIs DEF OwnSocks, Nodes
    <3>4. QED
      BY <3>2, <3>3
  <2>3. ASSUME NEW r \in Rooms, IsIn(p, r) PROVE FALSE
    <3>1. Seated(Node, p, r)
      BY <2>3, NodeIs DEF IsIn, Seated, ToSet
    <3>2. PICK x \in Joins, s \in Socks :
            Player(x) = p /\ x \in ToSet(listeners[s]) /\ sock[s] # "closed"
      BY <2>1, <3>1, NodeIs DEF SeatInv
    <3>3. listeners[s] \in Seq(Joins)
      BY <2>1, NodeIs DEF Nodes
    <3>4. PICK i \in 1..Len(listeners[s]) : x = listeners[s][i]
      BY <3>2, <3>3, InToSet
    <3>5. Owner[s] = p
      BY <2>1, <3>2, <3>4, NodeIs DEF ListenInv
    <3>6. QED
      BY <3>2, <3>5
  <2>4. QED
    BY <2>2, <2>3
<1>2. QED
  BY <1>1, SocksAlways, PTL

-----------------------------------------------------------------------------
(* What is sent reaches the players.                                       *)

\* Players keep their connections, and these keep what was written to them.
Louder(k, n) ==
  /\ k.users = n.users /\ k.userSock = n.userSock /\ k.sock = n.sock
  /\ \A s \in Socks : ToSet(n.inbox[s]) \subseteq ToSet(k.inbox[s])

LEMMA SockOfIs ==
  ASSUME NEW n \in Nodes, NEW p \in Players, SockOf(n, p) # NoSock
  PROVE  SockOf(n, p) \in Socks
BY DEF SockOf, Nodes, Objects

LEMMA LouderMet ==
  ASSUME NEW n \in Nodes, NEW k, Louder(k, n), NEW o, NEW i, NEW p \in Players,
         Met(n, o, i, p)
  PROVE  Met(k, o, i, p)
<1>1. SockOf(k, p) = SockOf(n, p) /\ (CanHear(k, p) <=> CanHear(n, p))
  BY DEF Louder, SockOf, CanHear
<1>2. CanHear(n, p) => SockOf(n, p) \in Socks
  BY SockOfIs DEF CanHear
<1>3. QED
  BY <1>1, <1>2 DEF Louder, Met

LEMMA LouderTwice ==
  ASSUME NEW n, NEW k, NEW l, Louder(l, k), Louder(k, n)
  PROVE  Louder(l, n)
BY DEF Louder

LEMMA WrittenHears ==
  ASSUME NEW n \in Nodes, NEW k \in Written(n)
  PROVE  k \in Nodes /\ k.members = n.members
BY WrittenIs DEF SameRooms

\* UserMgr._sendSingle.
LEMMA SendSingleMeets ==
  ASSUME LifecycleAssumption, NEW n \in Nodes, NEW o \in Joins, NEW m \in Texts,
         NEW p \in Players
  PROVE  LET k == SendSingle(n, o, m, p)
         IN Louder(k, n) /\ Met(k, o, m.n, p)
<1> DEFINE s == SockOf(n, p)
           e == Heard(o, m)
           v == [n.inbox EXCEPT ![s] = Append(n.inbox[s], e)]
           a == [n EXCEPT !.inbox = v]
<1>1. e \in Notes /\ e = [room |-> o, n |-> m.n]
  BY DEF Heard, Notes, Texts
<1>2. s # NoSock => s \in Socks
  BY SockOfIs
<1> HIDE DEF e
<1>3. CASE s = NoSock \/ n.sock[s] # "open"
  <2>1. SendSingle(n, o, m, p) = n
    BY <1>3 DEF SendSingle, SockOf
  <2>2. Met(n, o, m.n, p)
    BY <1>3 DEF Met, CanHear
  <2>3. QED
    BY <2>1, <2>2 DEF Louder
<1>4. CASE s # NoSock /\ n.sock[s] = "open"
  <2>1. SendSingle(n, o, m, p) = a
    BY <1>4 DEF SendSingle, SockOf, e
  <2>2. s \in Socks /\ n.inbox \in [Socks -> Seq(Notes)] /\ n.inbox[s] \in Seq(Notes)
    BY <1>2, <1>4 DEF Nodes
  <2> HIDE DEF s
  <2>3. ToSet(v[s]) = ToSet(n.inbox[s]) \cup {e}
    <3>1. v[s] = Append(n.inbox[s], e)
      BY <2>2
    <3>2. \A q \in Seq(Notes) : ToSet(Append(q, e)) = ToSet(q) \cup {e}
      BY <1>1, ToSetAppend
    <3>3. QED
      BY <2>2, <3>1, <3>2
  <2>4. \A t \in Socks \ {s} : v[t] = n.inbox[t]
    BY <2>2
  <2> HIDE DEF v
  <2>5. /\ a.inbox = v /\ a.sock = n.sock
        /\ a.users = n.users /\ a.userSock = n.userSock
    BY DEF Nodes
  <2> HIDE DEF a
  <2>6. Louder(a, n)
    BY <2>3, <2>4, <2>5 DEF Louder
  <2>7. SockOf(a, p) = s
    BY <2>5 DEF SockOf, s
  <2>8. Met(a, o, m.n, p)
    BY <1>1, <2>3, <2>5, <2>7 DEF Met
  <2>9. QED
    BY <2>1, <2>6, <2>8
<1>5. QED
  BY <1>3, <1>4

\* UserMgr.send: everyone it is for gets it.
LEMMA SendAllMeets ==
  ASSUME LifecycleAssumption, NEW n \in Nodes, NEW o \in Joins, NEW m \in Texts
  PROVE  LET k == SendAll(n, o, m)
         IN Louder(k, n) /\ \A p \in ToSet(Receivers(n, o, m)) : Met(k, o, m.n, p)
<1> DEFINE to == Receivers(n, o, m)
<1>1. to \in Seq(Players)
  BY SendAllRun
<1>2. PICK g \in [0..Len(to) -> Written(n)] :
        /\ g[0] = n /\ SendAll(n, o, m) = g[Len(to)]
        /\ \A i \in 1..Len(to) : g[i] = SendSingle(g[i - 1], o, m, to[i])
  BY SendAllRun, SMTT(30)
<1> HIDE DEF to
<1>3. Len(to) \in Nat /\ \A i \in 1..Len(to) : to[i] \in Players
  BY <1>1
<1> DEFINE Done(i) == /\ Louder(g[i], n)
                      /\ \A h \in 1..i : Met(g[i], o, m.n, to[h])
           G == {i \in 0..Len(to) : Done(i)}
<1>4. 0 \in G
  <2>1. Louder(n, n)
    BY DEF Louder
  <2>2. QED
    BY <1>2, <1>3, <2>1
<1>5. ASSUME NEW i \in 1..Len(to), i - 1 \in G PROVE i \in G
  <2>0. Done(i - 1)
    BY <1>5
  <2> HIDE DEF Done, G
  <2>1. /\ i \in 0..Len(to) /\ g[i - 1] \in Written(n) /\ Done(i - 1)
        /\ g[i] = SendSingle(g[i - 1], o, m, to[i]) /\ to[i] \in Players
    <3>1. i \in 0..Len(to) /\ i - 1 \in 0..Len(to)
      BY <1>3
    <3>2. QED
      BY <1>2, <1>3, <2>0, <3>1
  <2> DEFINE a == g[i - 1]
             b == g[i]
  <2>2. a \in Nodes
    BY <2>1, WrittenHears
  <2>3. Louder(b, a) /\ Met(b, o, m.n, to[i])
    BY <2>1, <2>2, SendSingleMeets
  <2>4. Louder(a, n) /\ \A h \in 1..(i - 1) : Met(a, o, m.n, to[h])
    BY <2>1 DEF Done
  <2> HIDE DEF Done, a, b
  <2>5. Louder(b, n)
    BY <2>3, <2>4, LouderTwice
  <2>6. ASSUME NEW h \in 1..i PROVE Met(b, o, m.n, to[h])
    <3>1. CASE h = i
      BY <2>3, <3>1
    <3>2. CASE h # i
      <4>1. h \in 1..(i - 1) /\ to[h] \in Players
        BY <1>3, <2>1, <3>2
      <4>2. Met(a, o, m.n, to[h])
        BY <2>4, <4>1
      <4>3. QED
        BY <2>2, <2>3, <4>1, <4>2, LouderMet
    <3>3. QED
      BY <3>1, <3>2
  <2>7. Done(i)
    BY <2>5, <2>6 DEF Done, b
  <2>8. QED
    BY <2>1, <2>7 DEF G
<1>6. Done(Len(to))
  <2> HIDE DEF G
  <2>1. \A i \in 0..Len(to) : i \in G
    BY <1>3, <1>4, <1>5, EveryTurn
  <2>2. Len(to) \in 0..Len(to)
    BY <1>3
  <2>3. QED
    BY <2>1, <2>2 DEF G
<1>7. ASSUME NEW p \in ToSet(to) PROVE Met(g[Len(to)], o, m.n, p)
  <2>1. \A q \in ToSet(to) : \E h \in 1..Len(to) : q = to[h]
    BY <1>1, InToSet
  <2>2. PICK h \in 1..Len(to) : p = to[h]
    BY <1>7, <2>1
  <2>3. QED
    BY <1>6, <2>2
<1>8. QED
  BY <1>2, <1>6, <1>7 DEF to

LEMMA ReceiversArePlayers ==
  ASSUME LifecycleAssumption, NEW n \in Nodes, NEW o \in Joins, NEW m \in Texts
  PROVE  ToSet(Receivers(n, o, m)) \subseteq Players
<1>1. Receivers(n, o, m) \in Seq(Players)
  BY SendAllRun
<1>2. QED
  BY <1>1, InToSet

\* What waits reaches everyone it is for when the room starts.
LEMMA PendingMeets ==
  ASSUME LifecycleAssumption, NEW n \in Nodes, NEW o \in Joins
  PROVE  LET k == PendingStays(n, o)
         IN /\ k \in Written(n) /\ Louder(k, n)
            /\ \A h \in 1..Len(n.pending[o]) :
                 \A p \in ToSet(Receivers(n, o, n.pending[o][h])) :
                   Met(k, o, n.pending[o][h].n, p)
<1> DEFINE w == n.pending[o]
<1>1. /\ w \in Seq(Texts)
      /\ \E g \in [0..Len(w) -> Written(n)] :
           /\ g[0] = n /\ PendingStays(n, o) = g[Len(w)]
           /\ \A i \in 1..Len(w) : g[i] = SendAll(g[i - 1], o, w[i])
  BY SendPendingRun
<1> HIDE DEF w
<1>2. PICK g \in [0..Len(w) -> Written(n)] :
        /\ g[0] = n /\ PendingStays(n, o) = g[Len(w)]
        /\ \A i \in 1..Len(w) : g[i] = SendAll(g[i - 1], o, w[i])
  BY <1>1
<1>3. Len(w) \in Nat /\ \A i \in 1..Len(w) : w[i] \in Texts
  BY <1>1
<1> DEFINE Done(i) == /\ Louder(g[i], n)
                      /\ \A h \in 1..i : \A p \in ToSet(Receivers(n, o, w[h])) :
                           Met(g[i], o, w[h].n, p)
           G == {i \in 0..Len(w) : Done(i)}
<1>4. 0 \in G
  <2>1. Louder(n, n)
    BY DEF Louder
  <2>2. QED
    BY <1>2, <1>3, <2>1
<1>5. ASSUME NEW i \in 1..Len(w), i - 1 \in G PROVE i \in G
  <2>0. Done(i - 1)
    BY <1>5
  <2> HIDE DEF Done, G
  <2>1. /\ i \in 0..Len(w) /\ g[i - 1] \in Written(n) /\ Done(i - 1)
        /\ g[i] = SendAll(g[i - 1], o, w[i]) /\ w[i] \in Texts
    <3>1. i \in 0..Len(w) /\ i - 1 \in 0..Len(w)
      BY <1>3
    <3>2. QED
      BY <1>2, <1>3, <2>0, <3>1
  <2> DEFINE a == g[i - 1]
             b == g[i]
  <2>2. a \in Nodes /\ a.members = n.members
    BY <2>1, WrittenHears
  <2>3. Louder(b, a) /\ \A p \in ToSet(Receivers(a, o, w[i])) : Met(b, o, w[i].n, p)
    BY <2>1, <2>2, SendAllMeets
  <2>4. /\ Louder(a, n)
        /\ \A h \in 1..(i - 1) : \A p \in ToSet(Receivers(n, o, w[h])) :
             Met(a, o, w[h].n, p)
    BY <2>1 DEF Done
  <2>5. Receivers(a, o, w[i]) = Receivers(n, o, w[i])
    BY <2>2 DEF Receivers
  <2> HIDE DEF Done, a, b
  <2>6. Louder(b, n)
    BY <2>3, <2>4, LouderTwice
  <2>7. ASSUME NEW h \in 1..i, NEW p \in ToSet(Receivers(n, o, w[h]))
        PROVE  Met(b, o, w[h].n, p)
    <3>1. CASE h = i
      BY <2>3, <2>5, <3>1
    <3>2. CASE h # i
      <4>1. h \in 1..(i - 1) /\ w[h] \in Texts
        BY <1>3, <2>1, <3>2
      <4>2. Met(a, o, w[h].n, p) /\ p \in Players
        BY <2>4, <4>1, ReceiversArePlayers
      <4>3. QED
        BY <2>2, <2>3, <4>2, LouderMet
    <3>3. QED
      BY <3>1, <3>2
  <2>8. Done(i)
    BY <2>6, <2>7 DEF Done, b
  <2>9. QED
    BY <2>1, <2>8 DEF G
<1>6. Done(Len(w)) /\ g[Len(w)] \in Written(n)
  <2> HIDE DEF G
  <2>1. \A i \in 0..Len(w) : i \in G
    BY <1>3, <1>4, <1>5, EveryTurn
  <2>2. Len(w) \in 0..Len(w)
    BY <1>3
  <2>3. QED
    BY <2>1, <2>2 DEF G
<1>7. \A h \in 1..Len(w) : \A p \in ToSet(Receivers(n, o, w[h])) :
        Met(g[Len(w)], o, w[h].n, p)
  BY <1>6
<1>8. Louder(g[Len(w)], n)
  BY <1>6
<1> HIDE DEF Done, G
<1>9. PendingStays(n, o) \in Written(n) /\ Louder(PendingStays(n, o), n)
  BY <1>2, <1>6, <1>8
<1>10. \A h \in 1..Len(n.pending[o]) : \A p \in ToSet(Receivers(n, o, n.pending[o][h])) :
         Met(PendingStays(n, o), o, n.pending[o][h].n, p)
  <2>1. \A h \in 1..Len(w) : \A p \in ToSet(Receivers(n, o, w[h])) :
          Met(PendingStays(n, o), o, w[h].n, p)
    <3>1. g[Len(w)] = PendingStays(n, o)
      BY <1>2
    <3> DEFINE k == g[Len(w)]
    <3>2. k = PendingStays(n, o)
      BY <3>1
    <3>3. \A h \in 1..Len(w) : \A p \in ToSet(Receivers(n, o, w[h])) : Met(k, o, w[h].n, p)
      BY <1>7
    <3> HIDE DEF k
    <3>4. QED
      BY <3>2, <3>3
  <2>2. QED
    BY <2>1 DEF w
<1>11. QED
  BY <1>9, <1>10

-----------------------------------------------------------------------------
(* What is sent is heard, or waits.                                        *)

\* No room starts, and only messages are added to what waits.
Carries(k, n) ==
  /\ k.started = n.started /\ k.isLogic = n.isLogic /\ k.roomId = n.roomId
  /\ k.rooms = n.rooms /\ k.sent = n.sent /\ k.early = n.early
  /\ \A o \in Joins : ToSet(n.pending[o]) \subseteq ToSet(k.pending[o])

LEMMA CarriesTells ==
  ASSUME NEW n \in Nodes, NEW k, Carries(k, n), TellInv(n)
  PROVE  TellInv(k) /\ Reaches(k, n)
<1>1. HeldInv(n) /\ SentInv(n)
  BY DEF TellInv
<1>2. HeldInv(k)
  <2> SUFFICES ASSUME NEW r \in Rooms, k.rooms[r] # 0, k.isLogic[k.rooms[r]],
                      ~k.started[k.rooms[r]], NEW i \in 1..k.sent[k.rooms[r]]
               PROVE  Said(i) \in ToSet(k.pending[k.rooms[r]])
    BY DEF HeldInv
  <2>1. n.rooms[r] \in Joins /\ k.rooms = n.rooms
    BY DEF Carries, Nodes, Objects
  <2>2. Said(i) \in ToSet(n.pending[n.rooms[r]])
    BY <1>1, <2>1 DEF HeldInv, Carries
  <2>3. QED
    BY <2>1, <2>2 DEF Carries
<1>3. SentInv(k)
  BY <1>1 DEF SentInv, Carries
<1>4. Reaches(k, n)
  BY DEF Reaches, Carries
<1>5. QED
  BY <1>2, <1>3, <1>4 DEF TellInv

\* A step that neither sends nor delivers, nor opens or closes a room.
LEMMA SameCarries ==
  ASSUME NEW n, NEW k, k.pending = n.pending, k.sent = n.sent, k.early = n.early,
         k.started = n.started, k.isLogic = n.isLogic, k.roomId = n.roomId,
         k.rooms = n.rooms
  PROVE  Carries(k, n)
BY DEF Carries

LEMMA WrittenCarries ==
  ASSUME NEW n \in Nodes, NEW k \in Written(n)
  PROVE  Carries(k, n)
<1>1. SameRooms(k, n) /\ k.sent = n.sent /\ k.pending = n.pending /\ k.early = n.early
  BY WrittenIs
<1>2. QED
  BY <1>1 DEF Carries, SameRooms

\* Room.send: the message is heard, or waits behind the others.
LEMMA RoomSendCarries ==
  ASSUME LifecycleAssumption, NEW n \in Nodes, NEW o \in Joins, NEW m \in Texts
  PROVE  LET k == RoomSend(n, o, m)
         IN /\ k \in Nodes /\ Carries(k, n)
            /\ n.isLogic[o] /\ ~n.started[o] => m \in ToSet(k.pending[o])
<1>1. CASE ~n.isLogic[o]
  BY <1>1 DEF RoomSend, Carries
<1>2. CASE n.isLogic[o] /\ n.started[o]
  <2>1. RoomSend(n, o, m) = SendAll(n, o, m)
    BY <1>2 DEF RoomSend
  <2>2. SendAll(n, o, m) \in Written(n)
    BY SendAllWrites, WrittenIs
  <2>3. QED
    BY <1>2, <2>1, <2>2, WrittenCarries, WrittenIs
<1>3. CASE n.isLogic[o] /\ ~n.started[o]
  <2> DEFINE w == Append(n.pending[o], m)
             v == [n.pending EXCEPT ![o] = w]
             l == [n EXCEPT !.pending = v]
  <2>1. RoomSend(n, o, m) = l
    BY <1>3 DEF RoomSend
  <2>2. n.pending \in [Joins -> Seq(Texts)] /\ n.pending[o] \in Seq(Texts)
    BY DEF Nodes
  <2>3. w \in Seq(Texts) /\ ToSet(w) = ToSet(n.pending[o]) \cup {m}
    <3>1. \A q \in Seq(Texts) : ToSet(Append(q, m)) = ToSet(q) \cup {m}
      BY ToSetAppend
    <3>2. QED
      BY <2>2, <3>1
  <2> HIDE DEF w
  <2>4. v \in [Joins -> Seq(Texts)] /\ v[o] = w /\ \A q \in Joins \ {o} : v[q] = n.pending[q]
    BY <2>2, <2>3
  <2> HIDE DEF v
  <2>5. l \in Nodes /\ l.pending = v
    BY <2>4 DEF Nodes
  <2>6. /\ l.sent = n.sent /\ l.early = n.early /\ l.started = n.started
        /\ l.isLogic = n.isLogic /\ l.roomId = n.roomId /\ l.rooms = n.rooms
    BY DEF Nodes
  <2> HIDE DEF l
  <2>7. \A q \in Joins : ToSet(n.pending[q]) \subseteq ToSet(l.pending[q])
    BY <2>3, <2>4, <2>5
  <2>8. Carries(l, n)
    BY <2>6, <2>7 DEF Carries
  <2>9. m \in ToSet(l.pending[o])
    BY <2>3, <2>4, <2>5
  <2>10. QED
    BY <2>1, <2>5, <2>8, <2>9
<1>4. QED
  BY <1>1, <1>2, <1>3

\* A message that waits is for the player.
Waits(n, o, i, p) == \E h \in 1..Len(n.pending[o]) :
  n.pending[o][h].n = i /\ p \in ToSet(Receivers(n, o, n.pending[o][h]))

\* Room.setState(START): what waits is delivered.
LEMMA StartTells ==
  ASSUME LifecycleAssumption, NEW K, NEW n \in GoodNodes(K), NEW o \in Joins,
         \A r \in Rooms : n.rooms[r] = o => Expect[r] \subseteq ToSet(n.visitors[o]),
         n.roomId[o] # NoRoom, TellInv(n),
         n.isLogic[o] /\ ~n.started[o] =>
           \A i \in 0..n.sent[o] : \A p \in Players :
             p \in Expect[n.roomId[o]] /\ IsFor(i, p) => Waits(n, o, i, p)
  PROVE  TellInv(Start(n, o)) /\ Reaches(Start(n, o), n)
<1>1. PICK b \in GoodNodes(K) : Starting(b, n, o) /\ Start(n, o) = SendPending(b, o)
  BY StartsGood
<1> DEFINE c == PendingStays(b, o)
           v == [b.pending EXCEPT ![o] = << >>]
           e == [c EXCEPT !.pending = v]
<1>2. n \in Nodes /\ b \in Nodes
  BY <1>1 DEF GoodNodes
<1>3. /\ c \in Written(b) /\ Louder(c, b)
      /\ \A h \in 1..Len(b.pending[o]) :
           \A p \in ToSet(Receivers(b, o, b.pending[o][h])) :
             Met(c, o, b.pending[o][h].n, p)
  BY <1>2, PendingMeets
<1>4. /\ c \in Nodes /\ c.pending = b.pending /\ SameRooms(c, b) /\ c.sock = b.sock
      /\ c.sent = b.sent /\ c.early = b.early
  BY <1>2, <1>3, WrittenIs
<1>5. Start(n, o) = e
  BY <1>1, <1>4 DEF SendPending
<1> HIDE DEF c
<1>6. /\ e.inbox = c.inbox /\ e.sock = c.sock /\ e.sent = c.sent /\ e.early = c.early
      /\ e.started = c.started /\ e.isLogic = c.isLogic /\ e.roomId = c.roomId
      /\ e.rooms = c.rooms /\ e.pending = v /\ e.users = c.users
      /\ e.userSock = c.userSock
  BY <1>4 DEF Nodes
<1>7. \A q \in Joins \ {o} : v[q] = b.pending[q]
  BY <1>2 DEF Nodes
<1> HIDE DEF v, e
<1>8. /\ e.sent = n.sent /\ e.isLogic = n.isLogic /\ e.roomId = n.roomId
      /\ e.rooms = n.rooms /\ e.started[o]
      /\ \A q \in Joins \ {o} : /\ e.started[q] = n.started[q] /\ e.early[q] = n.early[q]
                                /\ e.pending[q] = n.pending[q]
      /\ e.early[o] = IF n.started[o] THEN n.early[o] ELSE n.sent[o]
  BY <1>1, <1>4, <1>6, <1>7 DEF Starting, SameRooms
<1>9. \A q, i, p : Met(c, q, i, p) => Met(e, q, i, p)
  BY <1>6 DEF Met, CanHear, SockOf
<1>10. HeldInv(n) /\ SentInv(n)
  BY DEF TellInv
<1>11. HeldInv(e)
  <2> SUFFICES ASSUME NEW r \in Rooms, e.rooms[r] # 0, e.isLogic[e.rooms[r]],
                      ~e.started[e.rooms[r]], NEW i \in 1..e.sent[e.rooms[r]]
               PROVE  Said(i) \in ToSet(e.pending[e.rooms[r]])
    BY DEF HeldInv
  <2>0. n.rooms[r] \in Objects
    BY <1>2 DEF Nodes
  <2>1. n.rooms[r] \in Joins \ {o} /\ e.rooms[r] = n.rooms[r]
    BY <1>8, <2>0 DEF Objects
  <2>2. Said(i) \in ToSet(n.pending[n.rooms[r]])
    BY <1>8, <1>10, <2>1 DEF HeldInv
  <2>3. QED
    BY <1>8, <2>1, <2>2
<1>12. SentInv(e)
  BY <1>8, <1>10 DEF SentInv
<1>13. Reaches(e, n)
  <2> SUFFICES ASSUME NEW q \in Joins, ~n.started[q], e.started[q], e.isLogic[q],
                      NEW i \in 0..e.early[q], NEW p \in Players,
                      p \in Expect[e.roomId[q]], IsFor(i, p)
               PROVE  Met(e, q, i, p)
    BY DEF Reaches
  <2>1. q = o
    BY <1>8
  <2>2. Waits(n, o, i, p)
    BY <1>8, <2>1
  <2>3. PICK h \in 1..Len(n.pending[o]) :
          n.pending[o][h].n = i /\ p \in ToSet(Receivers(n, o, n.pending[o][h]))
    BY <2>2 DEF Waits
  <2>4. b.pending = n.pending /\ Receivers(b, o, b.pending[o][h]) = Receivers(n, o, n.pending[o][h])
    BY <1>1 DEF Starting, Receivers
  <2>5. Met(c, o, i, p)
    BY <1>3, <2>3, <2>4
  <2>6. QED
    BY <1>9, <2>1, <2>5
<1>14. TellInv(e)
  BY <1>11, <1>12 DEF TellInv
<1>15. QED
  BY <1>5, <1>13, <1>14

-----------------------------------------------------------------------------
(* Entering, and what is sent, in each step.                               *)

LEMMA UpdateSocketCarries ==
  ASSUME NEW n \in Nodes, NEW x \in Joins, NEW s \in Socks
  PROVE  Carries(UpdateSocket(n, x, s), n)
<1> DEFINE k == UpdateSocket(n, x, s)
<1>1. SameRooms(k, n) /\ k.pending = n.pending /\ k.sent = n.sent
  BY UpdateSocketIs
<1>2. k.early = n.early
  BY DEF UpdateSocket, Nodes
<1> HIDE DEF k
<1>3. Carries(k, n)
  BY <1>1, <1>2, SameCarries DEF SameRooms
<1>4. QED
  BY <1>3 DEF k

LEMMA WithUserCarries ==
  ASSUME LifecycleAssumption, NEW K, NEW n \in GoodNodes(K), NEW j \in Joins, TellInv(n)
  PROVE  TellInv(WithUser(n, j)) /\ WithUser(n, j).started = n.started
<1> DEFINE p == Player(j)
           x == n.users[p]
           s == JoinSock[j]
<1>1. n \in Nodes /\ p \in Players /\ s \in Socks /\ x \in Objects
  BY PlayerOf DEF GoodNodes, Nodes
<1>2. CASE x = 0
  <2> DEFINE u == UpdateSocket(n, j, s)
             v == [u.users EXCEPT ![p] = j]
             k == [u EXCEPT !.users = v]
  <2>1. u \in Nodes /\ TellInv(u) /\ u.started = n.started
    BY <1>1, UpdateSocketIs, UpdateSocketCarries, CarriesTells DEF Carries
  <2>2. WithUser(n, j) = k
    BY <1>2 DEF WithUser, NewUser
  <2> HIDE DEF u, v
  <2>3. /\ k.pending = u.pending /\ k.sent = u.sent /\ k.early = u.early
        /\ k.started = u.started
        /\ k.isLogic = u.isLogic /\ k.roomId = u.roomId /\ k.rooms = u.rooms
    BY <2>1 DEF Nodes
  <2> HIDE DEF k
  <2>4. Carries(k, u)
    BY <2>3, SameCarries
  <2>5. QED
    <3>1. TellInv(k)
      BY <2>1, <2>4, CarriesTells
    <3>2. n.started = u.started
      BY <2>1
    <3>3. QED
      BY <2>2, <2>3, <3>1, <3>2
<1>3. CASE x # 0 /\ n.userSock[x] = NoSock
  <2>1. x \in Joins /\ WithUser(n, j) = UpdateSocket(n, x, s)
    BY <1>1, <1>3 DEF WithUser, Objects
  <2>2. QED
    <3>1. Carries(UpdateSocket(n, x, s), n)
      BY <1>1, <2>1, UpdateSocketCarries
    <3>2. TellInv(UpdateSocket(n, x, s))
      BY <1>1, <3>1, CarriesTells
    <3>3. QED
      BY <2>1, <3>1, <3>2 DEF Carries
<1>4. CASE x # 0 /\ n.userSock[x] # NoSock
  BY <1>4 DEF WithUser
<1>5. QED
  BY <1>2, <1>3, <1>4

\* Nothing has been sent in a new room.
LEMMA WithRoomTells ==
  ASSUME LifecycleAssumption, NEW K, NEW n \in GoodNodes(K), NEW j \in Joins,
         NEW r \in Rooms, n.roomId[j] = NoRoom, TellInv(n)
  PROVE  TellInv(WithRoom(n, j, r)) /\ WithRoom(n, j, r).started = n.started
<1> DEFINE k == NewRoom(n, j, r, r \notin n.logicRooms)
<1>1. CASE n.rooms[r] # 0
  BY <1>1 DEF WithRoom
<1>2. CASE n.rooms[r] = 0
  <2>1. WithRoom(n, j, r) = k
    BY <1>2 DEF WithRoom
  <2>2. n \in Nodes /\ BlankInv(n) /\ HeldInv(n) /\ SentInv(n)
    BY DEF GoodNodes, TellInv
  <2>3. ~n.isLogic[j] /\ ~n.started[j] /\ n.sent[j] = 0
    BY <2>2 DEF BlankInv, SentInv
  <2>4. k.pending = n.pending /\ k.sent = n.sent /\ k.started = n.started
    BY <2>2 DEF NewRoom, Nodes
  <2>5. /\ k.rooms = [n.rooms EXCEPT ![r] = j] /\ k.roomId = [n.roomId EXCEPT ![j] = r]
        /\ k.isLogic = [n.isLogic EXCEPT ![j] = ~(r \notin n.logicRooms)]
    BY <2>2 DEF NewRoom, Nodes
  <2> HIDE DEF k
  <2>6. /\ \A q \in Joins \ {j} : k.roomId[q] = n.roomId[q] /\ k.isLogic[q] = n.isLogic[q]
        /\ \A q \in Rooms : k.rooms[q] = n.rooms[q] \/ k.rooms[q] = j
        /\ \A q \in Rooms : n.rooms[q] \in Objects
    BY <2>2, <2>5 DEF Nodes
  <2>7. HeldInv(k)
    <3> SUFFICES ASSUME NEW q \in Rooms, k.rooms[q] # 0, k.isLogic[k.rooms[q]],
                        ~k.started[k.rooms[q]], NEW i \in 1..k.sent[k.rooms[q]]
                 PROVE  Said(i) \in ToSet(k.pending[k.rooms[q]])
      BY DEF HeldInv
    <3>1. k.rooms[q] # j
      BY <2>3, <2>4
    <3>2. k.rooms[q] = n.rooms[q] /\ n.rooms[q] \in Joins \ {j}
      BY <2>6, <3>1 DEF Objects
    <3>3. Said(i) \in ToSet(n.pending[n.rooms[q]])
      BY <2>2, <2>4, <2>6, <3>2 DEF HeldInv
    <3>4. QED
      BY <2>4, <3>2, <3>3
  <2>8. SentInv(k)
    <3>1. ASSUME NEW q \in Joins, ~k.isLogic[q] PROVE k.sent[q] = 0
      <4>1. CASE q = j
        BY <2>3, <2>4, <4>1
      <4>2. CASE q # j
        BY <2>2, <2>4, <2>6, <3>1, <4>2 DEF SentInv
      <4>3. QED
        BY <4>1, <4>2
    <3>2. QED
      BY <3>1 DEF SentInv
  <2>9. QED
    BY <2>1, <2>4, <2>7, <2>8 DEF TellInv
<1>3. QED
  BY <1>1, <1>2

LEMMA ArrivedCarries ==
  ASSUME LifecycleAssumption, NEW n \in Nodes, NEW j \in Joins, NEW x \in Joins,
         NEW o \in Joins
  PROVE  Carries(Arrived(n, j, x, o), n)
<1> DEFINE k == Arrived(n, j, x, o)
<1>1. /\ k.pending = n.pending /\ k.sent = n.sent /\ k.early = n.early
      /\ k.started = n.started
  BY DEF Arrived, Nodes
<1>2. k.isLogic = n.isLogic /\ k.roomId = n.roomId /\ k.rooms = n.rooms
  BY DEF Arrived, Nodes
<1> HIDE DEF k
<1>3. Carries(k, n)
  BY <1>1, <1>2, SameCarries
<1>4. QED
  BY <1>3 DEF k

\* When everyone is in, room.joined is sent behind what waits, and all of it delivered.
LEMMA CompleteTells ==
  ASSUME LifecycleAssumption, NEW K, NEW n \in GoodNodes(K), NEW j \in Joins,
         NEW x \in Joins, NEW o \in Joins, n.roomId[o] # NoRoom, n.rooms[n.roomId[o]] = o,
         TellInv(n)
  PROVE  TellInv(Complete(n, j, x, o)) /\ Reaches(Complete(n, j, x, o), n)
<1> DEFINE r  == n.roomId[o]
           in == Arrived(n, j, x, o)
           m  == Message(0, << >>, TRUE)
           k  == RoomSend(in, o, m)
<1>1. in \in GoodNodes(K) /\ in.roomId = n.roomId /\ in.rooms = n.rooms
  BY ArrivedGood
<1>2. n \in Nodes
  BY DEF GoodNodes
<1>3. in \in Nodes /\ FiledInv(in) /\ VisitInv(in)
  BY <1>1 DEF GoodNodes
<1>4. r \in Rooms
  BY <1>2 DEF Nodes
<1>5. Carries(in, n)
  BY <1>2, ArrivedCarries
<1>6. TellInv(in) /\ Reaches(in, n) /\ in.started = n.started
  BY <1>2, <1>5, CarriesTells DEF Carries
<1>7. Complete(n, j, x, o) = IF o # 0 /\ EveryoneIsIn(in, o, r) THEN Start(k, o) ELSE in
  <2> DEFINE room == IF o = j THEN in.rooms[r] ELSE o
  <2>1. Complete(n, j, x, o) =
          IF room # 0 /\ EveryoneIsIn(in, room, r)
          THEN Start(RoomSend(in, room, m), room) ELSE in
    BY DEF Complete, Arrived
  <2> HIDE DEF in, m
  <2>2. room = o
    BY <1>1
  <2> HIDE DEF room
  <2>3. QED
    BY <2>1, <2>2
<1>8. m \in Texts /\ m.n = 0 /\ m.live
  <2>1. Len(Says) \in Nat /\ << >> \in Seq(Players)
    BY DEF LifecycleAssumption
  <2>2. QED
    BY <2>1 DEF Texts, Message
<1> HIDE DEF in, m
<1>9. CASE EveryoneIsIn(in, o, r)
  <2>1. /\ k \in Nodes /\ Carries(k, in)
        /\ in.isLogic[o] /\ ~in.started[o] => m \in ToSet(k.pending[o])
    BY <1>3, <1>8, RoomSendCarries
  <2>2. k \in GoodNodes(K) /\ SameRooms(k, in)
    BY <1>1, <1>3, <1>8, RoomSendGood
  <2> HIDE DEF k
  <2>3. TellInv(k) /\ k.started = n.started
    BY <1>3, <1>6, <2>1, CarriesTells DEF Carries
  <2>4. Expect[r] = ToSet(in.members[o])
    BY <1>9 DEF EveryoneIsIn
  <2>5. \A q \in Rooms : k.rooms[q] = o => Expect[q] \subseteq ToSet(k.visitors[o])
    <3>1. ASSUME NEW q \in Rooms, k.rooms[q] = o PROVE q = r
      BY <1>1, <1>3, <2>2, <3>1, JoinNumbers DEF FiledInv, SameRooms
    <3>2. Expect[r] \subseteq ToSet(k.visitors[o])
      BY <1>3, <2>2, <2>4 DEF VisitInv, SameRooms
    <3>3. QED
      BY <3>1, <3>2
  <2>6. k.roomId[o] = r /\ r # NoRoom
    BY <1>1, <2>2 DEF SameRooms
  <2>7. k.pending[o] \in Seq(Texts)
    BY <2>1 DEF Nodes
  <2>8. ASSUME k.isLogic[o], ~k.started[o], NEW i \in 0..k.sent[o], NEW p \in Players,
               p \in Expect[r], IsFor(i, p)
        PROVE  Waits(k, o, i, p)
    <3>1. p \in ToSet(k.members[o])
      BY <2>2, <2>4, <2>8 DEF SameRooms
    <3>2. PICK y \in ToSet(k.pending[o]) : y.n = i /\ p \in ToSet(Receivers(k, o, y))
      <4>1. CASE i = 0
        <5>1. m \in ToSet(k.pending[o])
          BY <2>1, <2>2, <2>8 DEF SameRooms
        <5>2. QED
          BY <1>8, <3>1, <4>1, <5>1 DEF Receivers
      <4>2. CASE i # 0
        <5>1. k.sent[o] \in Nat
          BY <2>1 DEF Nodes
        <5>2. i \in 1..k.sent[o]
          BY <4>2, <5>1
        <5>3. k.rooms[r] = o /\ o # 0
          BY <1>1, <2>2, JoinNumbers DEF SameRooms
        <5>4. Said(i) \in ToSet(k.pending[o])
          BY <1>4, <2>3, <2>8, <5>2, <5>3 DEF TellInv, HeldInv
        <5>5. p \in ToSet(Receivers(k, o, Said(i)))
          BY <2>8, <3>1, <5>2 DEF IsFor, Receivers, Said, Message
        <5>6. Said(i).n = i
          BY DEF Said, Message
        <5>7. QED
          BY <5>4, <5>5, <5>6
      <4>3. QED
        BY <4>1, <4>2
    <3>3. PICK h \in 1..Len(k.pending[o]) : y = k.pending[o][h]
      BY <2>7, InToSet
    <3>4. QED
      BY <3>2, <3>3 DEF Waits
  <2>9. TellInv(Start(k, o)) /\ Reaches(Start(k, o), k)
    BY <2>2, <2>3, <2>5, <2>6, <2>8, StartTells
  <2>10. Reaches(Start(k, o), n)
    BY <2>3, <2>9 DEF Reaches
  <2>11. QED
    BY <1>7, <1>9, <2>9, <2>10, JoinNumbers
<1>10. CASE ~EveryoneIsIn(in, o, r)
  BY <1>6, <1>7, <1>10
<1>11. QED
  BY <1>9, <1>10

LEMMA TellInit == ASSUME LifecycleAssumption, Init PROVE TellInv(Node)
<1>1. /\ \A r \in Rooms : rooms[r] = 0
      /\ \A o \in Joins : sent[o] = 0 /\ ~started[o]
  BY DEF Init
<1>2. HeldInv(Node) /\ SentInv(Node)
  BY <1>1, NodeIs DEF HeldInv, SentInv
<1>3. QED
  BY <1>2 DEF TellInv

LEMMA AppointTells ==
  ASSUME LifeInv, NEW r \in Rooms, Appoint(r)
  PROVE  TellKept
<1>1. UNCHANGED <<pending, sent, early, started, isLogic, roomId, rooms>>
  BY DEF Appoint, Becomes, SetWorkTypes, Node
<1>2. Carries(Node', Node)
  BY <1>1, SameCarries DEF Node
<1>3. QED
  BY <1>2, NodeGood, CarriesTells DEF TellKept

LEMMA EnterTells ==
  ASSUME LifecycleAssumption, LifeInv, MapInv, Preloaded, SocksInv(Node), NEW j \in Joins,
         phase[j] = "idle", sock[JoinSock[j]] = "open", Enter(j)
  PROVE  TellKept
<1> DEFINE r == user2room[Player(j)]
           m == WithUser(Node, j)
           x == m.users[Player(j)]
           n == WithRoom(m, j, r)
           o == n.rooms[r]
           c == Complete(n, j, x, o)
<1>1. SUFFICES ASSUME TellInv(Node) PROVE TellInv(Node') /\ Reaches(Node', Node)
  BY DEF TellKept
<1>2. /\ m \in GoodNodes(roomMap)
      /\ \/ Becomes(m)
         \/ /\ Becomes(c)
            /\ r \in Rooms /\ r \in roomMap /\ m.roomId[j] = NoRoom
            /\ n \in GoodNodes(roomMap) /\ x \in Joins /\ o \in Joins
            /\ n.roomId[o] = r /\ r # NoRoom /\ SocksInv(Arrived(n, j, x, o))
  BY EnterFinds
<1>3. TellInv(m) /\ m.started = Node.started
  BY <1>1, NodeGood, WithUserCarries
<1> HIDE DEF m
<1>4. CASE Becomes(m)
  BY <1>2, <1>3, <1>4, BecomesIs DEF GoodNodes, Reaches
<1>5. CASE /\ Becomes(c)
           /\ r \in Rooms /\ r \in roomMap /\ m.roomId[j] = NoRoom
           /\ n \in GoodNodes(roomMap) /\ x \in Joins /\ o \in Joins
           /\ n.roomId[o] = r /\ r # NoRoom /\ SocksInv(Arrived(n, j, x, o))
  <2>1. TellInv(n) /\ n.started = Node.started
    BY <1>2, <1>3, <1>5, WithRoomTells
  <2>2. n.rooms[n.roomId[o]] = o
    BY <1>5
  <2> HIDE DEF r, x, n, o
  <2>3. n.roomId[o] # NoRoom
    BY <1>5
  <2>4. TellInv(c) /\ Reaches(c, n) /\ c \in Nodes
    BY <1>5, <2>1, <2>2, <2>3, CompleteTells, CompleteGood DEF GoodNodes
  <2>5. Reaches(c, Node)
    BY <2>1, <2>4 DEF Reaches
  <2>6. QED
    BY <1>5, <2>4, <2>5, BecomesIs
<1>6. QED
  BY <1>2, <1>4, <1>5

\* What a game sends before the room has started waits.
LEMMA GameSendsTells ==
  ASSUME LifecycleAssumption, LifeInv, NEW o \in Joins, GameSends(o)
  PROVE  TellKept
<1> DEFINE i == sent[o] + 1
           m == Message(i, Says[i].to, Says[i].live)
           l == RoomSend(Node, o, m)
           k == [l EXCEPT !.sent[o] = i]
<1>1. i \in DOMAIN Says /\ Becomes(k) /\ isLogic[o]
  BY DEF GameSends
<1>2. i \in 0..Len(Says) /\ m \in Texts /\ m = Said(i)
  BY <1>1, SaidText DEF Said
<1>3. Node \in Nodes
  BY NodeGood DEF GoodNodes
<1>4. sent[o] \in Nat
  BY <1>3, NodeIs DEF Nodes
<1>5. \A h : h \in 1..i => h = i \/ h \in 1..sent[o]
  BY <1>4
<1>6. SUFFICES ASSUME TellInv(Node) PROVE TellInv(Node') /\ Reaches(Node', Node)
  BY DEF TellKept
<1> HIDE DEF m
<1>7. /\ l \in Nodes /\ Carries(l, Node)
      /\ Node.isLogic[o] /\ ~Node.started[o] => m \in ToSet(l.pending[o])
  BY <1>2, <1>3, RoomSendCarries
<1> HIDE DEF l
<1>8. TellInv(l)
  BY <1>3, <1>6, <1>7, CarriesTells
<1>9. /\ l.sent[o] = sent[o] /\ l.isLogic[o] /\ (l.started[o] <=> started[o])
  BY <1>1, <1>7, NodeIs DEF Carries
<1> HIDE DEF i
<1>10. k.sent = [l.sent EXCEPT ![o] = i] /\ k \in Nodes
  BY <1>2, <1>7, SetSentIs DEF Nodes
<1>11. /\ k.pending = l.pending /\ k.early = l.early /\ k.started = l.started
       /\ k.isLogic = l.isLogic /\ k.roomId = l.roomId /\ k.rooms = l.rooms
  BY <1>7 DEF Nodes
<1> HIDE DEF k
<1>12. k.sent[o] = i /\ \A q \in Joins \ {o} : k.sent[q] = l.sent[q]
  BY <1>7, <1>10 DEF Nodes
<1>13. HeldInv(k)
  <2> SUFFICES ASSUME NEW r \in Rooms, k.rooms[r] # 0, k.isLogic[k.rooms[r]],
                      ~k.started[k.rooms[r]], NEW h \in 1..k.sent[k.rooms[r]]
               PROVE  Said(h) \in ToSet(k.pending[k.rooms[r]])
    BY DEF HeldInv
  <2>1. l.rooms[r] \in Joins /\ k.rooms[r] = l.rooms[r]
    BY <1>7, <1>11 DEF Nodes, Objects
  <2>2. CASE h \in 1..l.sent[l.rooms[r]]
    <3>1. Said(h) \in ToSet(l.pending[l.rooms[r]])
      BY <1>8, <1>11, <2>1, <2>2 DEF TellInv, HeldInv
    <3>2. QED
      BY <1>11, <2>1, <3>1
  <2>3. CASE h \notin 1..l.sent[l.rooms[r]]
    <3>1. l.rooms[r] = o /\ h = i
      BY <1>5, <1>9, <1>12, <2>1, <2>3
    <3>2. m \in ToSet(l.pending[o])
      BY <1>1, <1>7, <1>9, <1>11, <2>1, <3>1, NodeIs
    <3>3. QED
      BY <1>2, <1>11, <2>1, <3>1, <3>2
  <2>4. QED
    BY <2>2, <2>3
<1>14. SentInv(k)
  BY <1>8, <1>9, <1>11, <1>12 DEF TellInv, SentInv
<1>15. Reaches(k, Node)
  BY <1>7, <1>11 DEF Reaches, Carries
<1>16. Node' = k
  BY <1>1, <1>10, BecomesIs
<1>17. QED
  BY <1>13, <1>14, <1>15, <1>16 DEF TellInv

LEMMA TellNext ==
  ASSUME LifecycleAssumption, Preloaded, LifeInv, NoneWaits, MapInv, SocksInv(Node),
         [Next]_vars
  PROVE  TellKept
<1>1. ASSUME NEW r \in Rooms, Appoint(r) PROVE TellKept
  BY <1>1, AppointTells
<1>2. ASSUME NEW r \in Rooms, GameCloses(r) PROVE TellKept
  BY <1>2, GameClosesLife
<1>3. ASSUME NEW j \in Joins, JoinArrives(j) PROVE TellKept
  BY <1>3, EnterTells DEF JoinArrives
<1>4. ASSUME NEW j \in Joins, CodeLoaded(j) \/ DataLoaded(j) \/ LoadFails(j) PROVE FALSE
  BY <1>4 DEF CodeLoaded, DataLoaded, LoadFails, NoneWaits
<1>5. ASSUME NEW s \in Socks, SocketCloses(s) PROVE TellKept
  BY <1>5, SocketEventLife DEF SocketCloses
<1>6. ASSUME NEW s \in Socks, SocketFails(s) PROVE TellKept
  BY <1>6, SocketEventLife DEF SocketFails
<1>7. ASSUME NEW s \in Socks, PeerCloses(s) PROVE TellKept
  BY <1>7, PeerClosesLife
<1>8. ASSUME NEW x \in Joins, HeartTimeout(x) PROVE TellKept
  BY <1>8, HeartTimeoutLife
<1>9. ASSUME NEW x \in Joins, HeartStops(x) PROVE TellKept
  BY <1>9, HeartStopsLife
<1>10. ASSUME NEW x \in Joins, LeaveRequest(x) PROVE TellKept
  BY <1>10, PlayerOf, LeavesLife DEF LeaveRequest
<1>11. ASSUME NEW p \in Players, Matched(p) PROVE TellKept
  <2>1. users[p] \in Joins
    BY <1>11, NodeGood, NodeIs DEF Matched, Nodes, Objects
  <2>2. QED
    BY <1>11, <2>1, LeavesLife DEF Matched
<1>12. ASSUME NEW o \in Joins, GameSends(o) PROVE TellKept
  BY <1>12, GameSendsTells
<1>13. CASE UNCHANGED vars
  <2>1. Node' = Node
    BY <1>13 DEF vars, Node, nodeVars
  <2>2. QED
    BY <2>1 DEF TellKept, Reaches
<1>14. QED
  BY <1>1, <1>2, <1>3, <1>4, <1>5, <1>6, <1>7, <1>8, <1>9, <1>10, <1>11, <1>12, <1>13
     DEF Next

\* When a room starts, every player it was appointed for gets, on the connection the
\* player has by then, room.joined and what was sent to the player or broadcast before,
\* in whatever order the players came, were disconnected, came back and the game sent;
\* unless that connection is not open, or an event of an older one has removed the
\* player's User object.  The rooms may share players, but Game.enter must not wait: a
\* room that is closed while the players' data is loaded is entered, and started, all
\* the same, and a broadcast from before is for nobody by then.
THEOREM StartReaches ==
  ASSUME Preloaded
  PROVE  Spec => StartReachesAll
<1>1. Init => MapInv /\ TellInv(Node)
  BY LifecycleAssumption, TellInit DEF Init, MapInv
<1>2. /\ LifeInv /\ NoneWaits /\ MapInv /\ SocksInv(Node) /\ TellInv(Node)
      /\ [Next]_vars
      => TellInv(Node)' /\ Reaches(Node', Node)
  BY LifecycleAssumption, TellNext DEF TellKept
<1> DEFINE Step(o) ==
             ~started[o] /\ started'[o] /\ isLogic[o]' =>
               \A i \in 0..early'[o], p \in Players :
                 p \in Expect[roomId'[o]] /\ IsFor(i, p) => Reached(o, i, p)'
<1>3. ASSUME Reaches(Node', Node), NEW o \in Joins PROVE Step(o)
  <2> SUFFICES ASSUME ~started[o], started'[o], isLogic[o]',
                      NEW i \in 0..early'[o], NEW p \in Players,
                      p \in Expect[roomId'[o]], IsFor(i, p)
               PROVE  Reached(o, i, p)'
    OBVIOUS
  <2>1. Met(Node', o, i, p)
    BY <1>3, NodeIs DEF Reaches, Node
  <2> DEFINE s == IF users'[p] = 0 THEN NoSock ELSE userSock'[users'[p]]
  <2>2. SockOf(Node', p) = s
    BY DEF SockOf, Node
  <2>3. s # NoSock /\ sock'[s] = "open" => [room |-> o, n |-> i] \in ToSet(inbox'[s])
    BY <2>1, <2>2 DEF Met, CanHear, Node
  <2>4. [room |-> o, n |-> i] \in ToSet(inbox'[s])
          => Contains(inbox'[s], [room |-> o, n |-> i])
    BY DEF ToSet, Contains
  <2>5. QED
    BY <2>3, <2>4 DEF Reached
<1>4. Reaches(Node', Node) => \A o \in Joins : Step(o)
  BY <1>3
<1>5. QED
  BY <1>1, <1>2, <1>4, MapNext, LifeAlways, NoneWaitsAlways, SocksAlways, PTL
     DEF Spec, StartReachesAll
=============================================================================
