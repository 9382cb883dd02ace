--------------------------- MODULE JoinRetryProofs --------------------------
(***************************************************************************)
(* Theorems about JoinRetry, for all players, rooms, names, versions and   *)
(* numbers of joins.  What the joins do to the code of the games are steps *)
(* of GameCode, so that its theorems hold here as well.                    *)
(***************************************************************************)
EXTENDS JoinRetry, TLAPS

CodeP == INSTANCE GameCodeProofs WITH Joiners <- Calls

-----------------------------------------------------------------------------
(* The joins and GameCode.                                                 *)

\* Every step of the joins is a step of GameCode or leaves the code alone.
LEMMA CodeSteps == [Next]_vars => [Code!Next]_codeVars
<1> SUFFICES ASSUME Next PROVE Code!Next \/ UNCHANGED codeVars
  BY DEF vars
<1>0. Game \in Games
  BY JoinRetryAssumption
<1>1. ASSUME NEW c \in Calls, NEW k, Begins(c, k)
      PROVE  Code!Next \/ UNCHANGED codeVars
  BY <1>0, <1>1 DEF Begins, Code!Next, Code!JoinSteps
<1>2. ASSUME NEW r \in Rooms, Appoint(r) PROVE UNCHANGED codeVars
  BY <1>2 DEF Appoint, codeVars
<1>3. ASSUME NEW c \in Calls, NEW p \in Players, RetryFires(c, p)
      PROVE  Code!Next \/ UNCHANGED codeVars
  BY <1>1, <1>3 DEF RetryFires
<1>4. ASSUME NEW c \in Calls, NEW p \in Players, NEW asks \in Asks[p], Request(c, p, asks)
      PROVE  Code!Next \/ UNCHANGED codeVars
  BY <1>1, <1>4 DEF Request
<1>5. ASSUME NEW c \in Calls, NEW v \in Code!Versions, CodeComes(c, v) PROVE Code!Next
  BY <1>5 DEF CodeComes, Code!Next, Code!JoinSteps
<1>6. ASSUME NEW c \in Calls, CodeAgain(c) \/ CodeFails(c) PROVE Code!Next
  BY <1>6 DEF CodeAgain, CodeFails, Code!Next, Code!JoinSteps
<1>7. ASSUME NEW c \in Calls, DataComes(c) \/ DataFails(c) PROVE UNCHANGED codeVars
  BY <1>7 DEF DataComes, DataFails, codeVars
<1>8. ASSUME NEW p \in Players, Leaves(p) PROVE UNCHANGED codeVars
  BY <1>8 DEF Leaves, codeVars
<1>9. CASE CodeChanges
  BY <1>9 DEF CodeChanges, Code!Next
<1> QED
  BY <1>2, <1>3, <1>4, <1>5, <1>6, <1>7, <1>8, <1>9 DEF Next

LEMMA CodeInvStep ==
  CodeP!CodeInv /\ [Next]_vars => CodeP!CodeInv' /\ (CodeP!Grows \/ UNCHANGED code)
<1>1. [Code!Next]_codeVars => [CodeP!Next]_(CodeP!codeVars)
  BY DEF codeVars, CodeP!codeVars, Code!Next, CodeP!Next, Code!JoinSteps, CodeP!JoinSteps,
         Code!OtherSteps, CodeP!OtherSteps, Code!GetGame, CodeP!GetGame, Code!JoinGets,
         CodeP!JoinGets, Code!TriesAgain, CodeP!TriesAgain, Code!GivesUp, CodeP!GivesUp,
         Code!RefreshStarts, CodeP!RefreshStarts, Code!RefreshGets, CodeP!RefreshGets,
         Code!RefreshFails, CodeP!RefreshFails, Code!Publish, CodeP!Publish, Code!Ages,
         CodeP!Ages, Code!GoesOn, CodeP!GoesOn, Code!Begins, CodeP!Begins, Code!Stops,
         CodeP!Stops, Code!Store, CodeP!Store, Code!Delivered, CodeP!Delivered,
         Code!Loaded, CodeP!Loaded, Code!Loading, CodeP!Loading, Code!NewLoad, CodeP!NewLoad,
         Code!Due, CodeP!Due, Code!Position, CodeP!Position, Code!Loaders, CodeP!Loaders,
         Code!Versions, CodeP!Versions
<1> QED
  BY <1>1, CodeSteps, CodeP!StepCodeInv

LEMMA CodeInvTypes == CodeP!CodeInv => Code!TypeOK
  BY DEF CodeP!CodeInv, CodeP!TypeOK, Code!TypeOK, Code!Versions, CodeP!Versions,
         Code!Loaded, CodeP!Loaded, Code!Loaders, CodeP!Loaders, Code!Load, CodeP!Load

LEMMA CodeInvTypesNext == CodeP!CodeInv' => Code!TypeOK'
  BY CodeInvTypes, PTL

LEMMA CodeInvInit == Init => CodeP!CodeInv
<1>1. Code!GameCodeAssumption /\ Code!Init => CodeP!GameCodeAssumption /\ CodeP!Init
  BY DEF Code!GameCodeAssumption, CodeP!GameCodeAssumption, Code!Init, CodeP!Init,
         Code!Loaders, CodeP!Loaders
<1> QED
  BY <1>1, CodeP!InitCodeInv, JoinRetryAssumption DEF Init

-----------------------------------------------------------------------------
(* The invariant.                                                          *)

\* Joins load the game that is played; who joins or is retried was matched; a retry has
\* an entry; and a join that has the room of roomMgr has an open room.
CallInv ==
  /\ \A c \in Calls : load[c] # << >> => load[c].game = Game
  /\ \A c \in Calls : call[c] # << >> => result[call[c].player] # NoRoom
  /\ \A c \in Calls : call[c] # << >> /\ call[c].retry => entry[call[c].player] # << >>
  /\ \A p \in Players : entry[p] # << >> => result[p] # NoRoom
  /\ \A c \in Calls : WaitsForData(c) /\ call[c].alive => IsOpen(call[c].room)

\* The join that has created a room will give it the name it runs with.
NameInv ==
  /\ NamesAgree
  /\ \A c \in Calls : WaitsForData(c) /\ call[c].makes /\ call[c].room \notin torn =>
       IsOpen(call[c].room) /\ runs[call[c].room] = RoomName(call[c].asks)

\* As long as no joins of a player overlap, the player has one seat at most and none
\* while a join waits for the data ...
SeatOf(p) ==
  /\ \A r \in Rooms : seats[r][p] <= 1 /\ (seats[r][p] = 1 => at[p] = r)
  /\ \A c, d \in Under(p) : c = d
  /\ \A c \in Under(p) : call[c].room # NoRoom =>
       seats[call[c].room][p] = 0 /\ at[p] \in {NoRoom, call[c].room}

\* ... and the count of the entry is the number of retries that have failed.
RetryOf(p) ==
  /\ p \in timer => entry[p].count <= 2
  /\ \A c \in Under(p) : call[c].retry =>
       p \in timer /\ call[c].count = entry[p].count /\ tried[p] = entry[p].count + 1
  /\ (\A c \in Under(p) : ~call[c].retry) =>
       /\ p \in timer => tried[p] = entry[p].count
       /\ p \notin timer => tried[p] <= 3 /\ (entry[p] = << >> => tried[p] = 0)

PlayerInv == \A p \in Players \ slipped : SeatOf(p) /\ RetryOf(p)

Inv == CodeP!CodeInv /\ TypeOK /\ CallInv /\ NameInv /\ PlayerInv

LEMMA InvTypes == Inv => /\ Code!TypeOK /\ TypeOK /\ CallInv /\ NameInv /\ PlayerInv
  BY DEF Inv, TypeOK

LEMMA NoNames == NoName \notin Names /\ NoRoom \notin Rooms /\ Hash \notin Names
  BY JoinRetryAssumption

LEMMA InitInv == Init => Inv
<1> SUFFICES ASSUME Init PROVE Inv
  OBVIOUS
<1>1. CodeP!CodeInv /\ Code!TypeOK
  BY CodeInvInit, CodeInvTypes
<1>2. load = [l \in Code!Loaders |-> << >>] /\ Calls \subseteq Code!Loaders
  BY DEF Init, Code!Init, Code!Loaders
<1>3. TypeOK
  BY <1>1, <1>2 DEF Init, TypeOK, Nobody
<1>4. CallInv /\ NameInv
  BY <1>2 DEF Init, CallInv, NameInv, NamesAgree, WaitsForData, IsOpen
<1>5. ASSUME NEW p \in Players PROVE SeatOf(p) /\ RetryOf(p)
  <2>1. /\ Under(p) = {} /\ tried[p] = 0 /\ timer = {}
        /\ \A r \in Rooms : seats[r][p] = 0
    BY DEF Init, Nobody, Under
  <2> QED
    BY <2>1 DEF SeatOf, RetryOf
<1> QED
  BY <1>1, <1>3, <1>4, <1>5 DEF Inv, PlayerInv

-----------------------------------------------------------------------------
(* What steps of GameCode do to the loads of the joins.                    *)

\* The loads of the other joins stay as they are.
OtherLoads(c) == \A d \in Calls \ {c} : load'[d] = load[d]

LEMMA LoadSteps ==
  ASSUME Code!TypeOK, NEW c \in Calls
  PROVE  /\ \A g \in Games : Code!GetGame(c, g) =>
              /\ load[c] = << >> /\ load'[c] # << >> /\ load'[c].game = g
              /\ OtherLoads(c) /\ UNCHANGED code
         /\ \A v \in Code!Versions : Code!JoinGets(c, v) =>
              /\ load[c] # << >> /\ load'[c] = << >> /\ OtherLoads(c)
              /\ code'[load[c].game] = v
         /\ Code!GivesUp(c) =>
              /\ load[c] # << >> /\ load'[c] = << >> /\ OtherLoads(c) /\ UNCHANGED code
         /\ Code!TriesAgain(c) =>
              /\ load[c] # << >> /\ load'[c] # << >> /\ load'[c].game = load[c].game
              /\ OtherLoads(c) /\ UNCHANGED code
         /\ Code!OtherSteps => \A d \in Calls : load'[d] = load[d]
<1>1. DOMAIN load = Code!Loaders /\ Calls \subseteq Code!Loaders /\ Refreshers \subseteq Code!Loaders
  BY DEF Code!TypeOK, Code!Loaders
<1>2. code \in [Games -> {0} \cup Code!Versions]
  BY DEF Code!TypeOK
<1>3. \A l \in Code!Loaders : load[l] # << >> => load[l].game \in Games
  BY DEF Code!TypeOK, Code!Load
<1>4. ASSUME NEW g \in Games, Code!GetGame(c, g)
      PROVE  /\ load[c] = << >> /\ load'[c] # << >> /\ load'[c].game = g
             /\ OtherLoads(c) /\ UNCHANGED code
  BY <1>1, <1>4 DEF Code!GetGame, Code!Begins, Code!NewLoad, OtherLoads
<1>5. ASSUME NEW v \in Code!Versions, Code!JoinGets(c, v)
      PROVE  /\ load[c] # << >> /\ load'[c] = << >> /\ OtherLoads(c)
             /\ code'[load[c].game] = v
  BY <1>1, <1>2, <1>3, <1>5 DEF Code!JoinGets, Code!Stops, Code!Store, OtherLoads
<1>6. ASSUME Code!GivesUp(c)
      PROVE  load[c] # << >> /\ load'[c] = << >> /\ OtherLoads(c) /\ UNCHANGED code
  BY <1>1, <1>6 DEF Code!GivesUp, Code!Stops, OtherLoads
<1>7. ASSUME Code!TriesAgain(c)
      PROVE  /\ load[c] # << >> /\ load'[c] # << >> /\ load'[c].game = load[c].game
             /\ OtherLoads(c) /\ UNCHANGED code
  BY <1>1, <1>7 DEF Code!TriesAgain, Code!Begins, Code!NewLoad, OtherLoads
<1>8. ASSUME Code!OtherSteps, NEW d \in Calls
      PROVE  load'[d] = load[d]
  <2>1. \A r \in Refreshers : d # r
    BY JoinRetryAssumption DEF Code!GameCodeAssumption
  <2>2. ASSUME NEW r \in Refreshers,
               load' = [load EXCEPT ![r] = << >>]
                 \/ \E g, try : load' = [load EXCEPT ![r] = Code!NewLoad(g, try)]
        PROVE  load'[d] = load[d]
    BY <1>1, <2>1, <2>2
  <2> QED
    BY <1>8, <2>2 DEF Code!OtherSteps, Code!RefreshStarts, Code!RefreshGets, Code!RefreshFails,
       Code!TriesAgain, Code!GoesOn, Code!Begins, Code!Stops, Code!Publish, Code!Ages
<1> QED
  BY <1>4, <1>5, <1>6, <1>7, <1>8

\* Code that is in memory stays there, if not the same.
LEMMA CodeStays ==
  ASSUME Code!TypeOK, [Next]_vars, code[Game] # 0
  PROVE  code'[Game] # 0
<1>1. CASE UNCHANGED codeVars
  BY <1>1 DEF codeVars
<1>2. ASSUME NEW l, NEW v \in Code!Versions, Code!Store(load[l].game, v)
      PROVE  code'[Game] # 0
  <2>1. Game \in Games /\ code \in [Games -> {0} \cup Code!Versions] /\ v # 0
    BY JoinRetryAssumption DEF Code!TypeOK, Code!Versions
  <2> QED
    BY <1>2, <2>1 DEF Code!Store
<1>3. CASE Code!JoinSteps
  BY <1>2, <1>3 DEF Code!JoinSteps, Code!GetGame, Code!JoinGets, Code!TriesAgain, Code!GivesUp
<1>4. CASE Code!OtherSteps
  BY <1>2, <1>4 DEF Code!OtherSteps, Code!RefreshStarts, Code!TriesAgain, Code!RefreshFails,
     Code!RefreshGets, Code!Publish, Code!Ages
<1> QED
  BY <1>1, <1>3, <1>4, CodeSteps DEF Code!Next

-----------------------------------------------------------------------------
(* What a step does to one player.                                         *)

Entry == [asks : Names \cup {Hash}, count : Nat]

\* The step does not touch player p.
Same(p) ==
  /\ Under(p)' = Under(p)
  /\ \A c \in Under(p) : /\ call'[c].room = call[c].room /\ call'[c].retry = call[c].retry
                         /\ call'[c].count = call[c].count
  /\ entry'[p] = entry[p] /\ (p \in timer' <=> p \in timer) /\ tried'[p] = tried[p]
  /\ at'[p] = at[p] /\ \A r \in Rooms : seats'[r][p] = seats[r][p]

LEMMA SameKeeps ==
  ASSUME TypeOK, NEW p \in Players, Same(p), SeatOf(p) /\ RetryOf(p)
  PROVE  SeatOf(p)' /\ RetryOf(p)'
<1>1. \A c \in Under(p) : call[c].room \in Rooms \cup {NoRoom}
  BY DEF TypeOK, Under, Join
<1>2. SeatOf(p)'
  BY <1>1, NoNames DEF Same, SeatOf
<1>3. RetryOf(p)'
  BY DEF Same, RetryOf
<1> QED
  BY <1>2, <1>3

\* A step of one call touches its player only.
LEMMA OthersSame ==
  ASSUME NEW c \in Calls, NEW q \in Players, NEW x, NEW p \in Players \ {q},
         DOMAIN call = Calls, call' = [call EXCEPT ![c] = x],
         call[c] # << >> => call[c].player = q, x # << >> => x.player = q,
         entry'[p] = entry[p], p \in timer' <=> p \in timer, tried'[p] = tried[p],
         at'[p] = at[p], \A r \in Rooms : seats'[r][p] = seats[r][p]
  PROVE  Same(p)
<1>1. call'[c] = x /\ \A d \in Calls \ {c} : call'[d] = call[d]
  OBVIOUS
<1>2. c \notin Under(p) /\ c \notin Under(p)'
  BY <1>1 DEF Under
<1>3. Under(p)' = Under(p)
  BY <1>1, <1>2 DEF Under
<1> QED
  BY <1>1, <1>2, <1>3 DEF Same, Under

\* What Ends does.
LEMMA EndsEffect ==
  ASSUME TypeOK, NEW c \in Calls, NEW k \in Join, NEW out,
         k.retry => entry[k.player] # << >>, Ends(c, k, out)
  PROVE  /\ call' = [call EXCEPT ![c] = << >>]
         /\ DOMAIN entry' = Players
         /\ \A p \in Players : /\ entry'[p] # << >> => entry'[p] \in Entry
                               /\ entry[p] # << >> => entry'[p] # << >>
                               /\ entry'[p] # << >> => entry[p] # << >> \/ p = k.player
         /\ timer' \subseteq {p \in Players : entry'[p] # << >>}
         /\ \A p \in Players \ {k.player} : entry'[p] = entry[p] /\ (p \in timer' <=> p \in timer)
<1>1. /\ DOMAIN entry = Players /\ \A p \in Players : entry[p] # << >> => entry[p] \in Entry
      /\ timer \subseteq {p \in Players : entry[p] # << >>}
  BY DEF TypeOK, Entry
<1>2. k.player \in Players /\ k.asks \in Names \cup {Hash} /\ k.count \in Nat
  BY DEF Join
<1>3. call' = [call EXCEPT ![c] = << >>]
  BY DEF Ends
<1>4. CASE UNCHANGED retryVars
  BY <1>1, <1>3, <1>4 DEF retryVars
<1>5. CASE /\ entry[k.player] = << >>
           /\ entry' = [entry EXCEPT ![k.player] = [asks |-> k.asks, count |-> 0]]
           /\ timer' = timer \cup {k.player}
  <2>1. entry'[k.player] \in Entry /\ entry'[k.player] # << >>
    BY <1>1, <1>2, <1>5 DEF Entry
  <2>2. \A p \in Players \ {k.player} : entry'[p] = entry[p] /\ (p \in timer' <=> p \in timer)
    BY <1>1, <1>5
  <2>3. DOMAIN entry' = Players
    BY <1>1, <1>5
  <2> QED
    BY <1>1, <1>2, <1>3, <1>5, <2>1, <2>2, <2>3
<1>6. CASE timer' = timer \ {k.player} /\ UNCHANGED entry
  BY <1>1, <1>3, <1>6
<1>7. CASE /\ k.retry /\ entry' = [entry EXCEPT ![k.player].count = Counted(k)]
           /\ UNCHANGED timer
  <2>1. entry'[k.player] \in Entry /\ entry'[k.player] # << >>
    BY <1>1, <1>2, <1>7 DEF Entry, Counted
  <2>2. \A p \in Players \ {k.player} : entry'[p] = entry[p]
    BY <1>1, <1>7
  <2>3. DOMAIN entry' = Players
    BY <1>1, <1>7
  <2> QED
    BY <1>1, <1>2, <1>3, <1>7, <2>1, <2>2, <2>3
<1> QED
  BY <1>4, <1>5, <1>6, <1>7 DEF Ends, AddRetry

-----------------------------------------------------------------------------
(* Counting retries.                                                       *)

\* The join k is the only one of its player, and the counts are as RetryOf says.
Counts(k) ==
  LET q == k.player
  IN /\ q \in timer => entry[q].count <= 2
     /\ k.retry => q \in timer /\ k.count = entry[q].count /\ tried'[q] = entry[q].count + 1
     /\ ~k.retry =>
          /\ q \in timer => tried'[q] = entry[q].count
          /\ q \notin timer => tried'[q] <= 3 /\ (entry[q] = << >> => tried'[q] = 0)

LEMMA UnderWay ==
  ASSUME NEW c \in Calls, call[c] # << >>, RetryOf(call[c].player),
         tried'[call[c].player] = tried[call[c].player], Under(call[c].player) = {c}
  PROVE  Counts(call[c])
<1>1. c \in Under(call[c].player)
  OBVIOUS
<1> QED
  BY <1>1 DEF Counts, RetryOf

LEMMA CountsEnds ==
  ASSUME TypeOK, NEW c \in Calls, NEW k \in Join, NEW out, Ends(c, k, out), Counts(k),
         tried' \in [Players -> Nat], Under(k.player) \subseteq {c},
         ~(k.retry /\ out = "thrown")
  PROVE  RetryOf(k.player)'
<1> DEFINE q == k.player
<1>1. q \in Players /\ k.count \in Nat /\ tried'[q] \in Nat
  BY DEF Join
<1>2. /\ DOMAIN entry = Players /\ timer \subseteq Players
      /\ entry[q] # << >> => entry[q] \in Entry /\ entry[q].count \in Nat
      /\ q \in timer => entry[q] # << >>
  BY <1>1 DEF TypeOK, Entry
<1>3. DOMAIN call = Calls /\ call' = [call EXCEPT ![c] = << >>]
  BY DEF TypeOK, Ends
<1>4. Under(q)' = {}
  BY <1>3 DEF Under
<1> SUFFICES /\ q \in timer' => entry'[q].count <= 2 /\ tried'[q] = entry'[q].count
             /\ q \notin timer' => tried'[q] <= 3 /\ (entry'[q] = << >> => tried'[q] = 0)
  BY <1>4 DEF RetryOf
<1>5. CASE ~k.retry
  <2>1. CASE UNCHANGED retryVars
    BY <1>5, <2>1 DEF retryVars, Counts
  <2>2. CASE AddRetry(k) /\ entry[q] = << >>
    <3>1. entry'[q] = [asks |-> k.asks, count |-> 0] /\ q \in timer'
      BY <1>1, <1>2, <2>2 DEF AddRetry
    <3>2. tried'[q] = 0
      BY <1>2, <1>5, <2>2 DEF Counts
    <3> QED
      BY <3>1, <3>2
  <2> QED
    BY <1>5, <2>1, <2>2 DEF Ends, AddRetry
<1>6. CASE k.retry
  <2>1. q \in timer /\ k.count = entry[q].count /\ tried'[q] = entry[q].count + 1
        /\ entry[q].count <= 2
    BY <1>6 DEF Counts
  <2>2. CASE timer' = timer \ {q} /\ UNCHANGED entry
    BY <1>2, <2>1, <2>2
  <2>3. CASE ~LastTry(k) /\ entry' = [entry EXCEPT ![q].count = Counted(k)] /\ UNCHANGED timer
    <3>1. entry'[q].count = k.count + 1 /\ k.count + 1 <= 2
      BY <1>1, <1>2, <2>1, <2>3 DEF Counted, LastTry, Entry
    <3> QED
      BY <2>1, <2>3, <3>1
  <2> QED
    BY <1>6, <2>2, <2>3 DEF Ends
<1> QED
  BY <1>5, <1>6

\* The join goes on waiting, as the call x.
LEMMA CountsWaits ==
  ASSUME TypeOK, NEW c \in Calls, NEW k \in Join, NEW x, x # << >>, Counts(k),
         Under(k.player) \subseteq {c}, call' = [call EXCEPT ![c] = x],
         x.player = k.player, x.retry = k.retry, x.count = k.count,
         UNCHANGED <<entry, timer>>
  PROVE  RetryOf(k.player)' /\ Under(k.player)' = {c} /\ call'[c] = x
<1>1. DOMAIN call = Calls
  BY DEF TypeOK
<1>2. call'[c] = x /\ Under(k.player)' = {c}
  BY <1>1 DEF Under
<1>3. k.retry \in BOOLEAN
  BY DEF Join
<1> QED
  BY <1>2, <1>3 DEF RetryOf, Counts

-----------------------------------------------------------------------------
(* Taking seats.                                                           *)

LEMMA SeatedTypes ==
  ASSUME TypeOK, NEW k \in Join, k.room \in Rooms, RoomName(k.asks) \in Names, Seated(k)
  PROVE  /\ seats' \in [Rooms -> [Players -> Nat]] /\ at' \in [Players -> Rooms \cup {NoRoom}]
         /\ known' \subseteq Players /\ name' \in [Rooms -> Names \cup {NoName}]
         /\ at'[k.player] = k.room
         /\ \A p \in Players \ {k.player} :
              at'[p] = at[p] /\ \A r \in Rooms : seats'[r][p] = seats[r][p]
         /\ \A r \in Rooms \ {k.room} : seats'[r] = seats[r]
         /\ ~k.alive => seats' = seats
         /\ k.alive => seats'[k.room][k.player] = seats[k.room][k.player] + 1
<1>1. /\ seats \in [Rooms -> [Players -> Nat]] /\ at \in [Players -> Rooms \cup {NoRoom}]
      /\ known \subseteq Players /\ name \in [Rooms -> Names \cup {NoName}]
  BY DEF TypeOK
<1>2. k.player \in Players /\ k.alive \in BOOLEAN /\ k.makes \in BOOLEAN
  BY DEF Join
<1>3. /\ at' \in [Players -> Rooms \cup {NoRoom}] /\ at'[k.player] = k.room
      /\ \A p \in Players \ {k.player} : at'[p] = at[p]
  BY <1>1, <1>2 DEF Seated
<1>4. CASE k.alive
  <2>1. seats' = [seats EXCEPT ![k.room][k.player] = @ + 1]
    BY <1>4 DEF Seated, GetsSeat
  <2>2. /\ seats' \in [Rooms -> [Players -> Nat]]
        /\ seats'[k.room][k.player] = seats[k.room][k.player] + 1
        /\ \A p \in Players \ {k.player} : \A r \in Rooms : seats'[r][p] = seats[r][p]
        /\ \A r \in Rooms \ {k.room} : seats'[r] = seats[r]
    BY <1>1, <1>2, <2>1
  <2> QED
    BY <1>1, <1>2, <1>3, <1>4, <2>2 DEF Seated
<1>5. CASE ~k.alive
  BY <1>1, <1>2, <1>3, <1>5 DEF Seated, GetsSeat
<1> QED
  BY <1>2, <1>4, <1>5

\* The player whose join ends has the seat it had ...
LEMMA SeatKept ==
  ASSUME NEW q \in Players, SeatOf(q), Under(q)' = {}, at'[q] = at[q],
         \A r \in Rooms : seats'[r][q] = seats[r][q]
  PROVE  SeatOf(q)'
  BY DEF SeatOf

\* ... or the one that was free.
LEMMA SeatTaken ==
  ASSUME TypeOK, NEW k \in Join, k.room \in Rooms, RoomName(k.asks) \in Names, Seated(k),
         SeatOf(k.player), seats[k.room][k.player] = 0, at[k.player] \in {NoRoom, k.room},
         Under(k.player)' = {}
  PROVE  SeatOf(k.player)'
<1> DEFINE q == k.player
<1>1. q \in Players /\ seats \in [Rooms -> [Players -> Nat]]
  BY DEF Join, TypeOK
<1>2. \A r \in Rooms : seats[r][q] = 0
  BY <1>1, NoNames DEF SeatOf
<1>3. at'[q] = k.room /\ \A r \in Rooms \ {k.room} : seats'[r][q] = 0
  BY <1>1, <1>2, SeatedTypes
<1>4. seats'[k.room][q] \in {0, 1}
  BY <1>1, <1>2, SeatedTypes DEF Join
<1> QED
  BY <1>3, <1>4 DEF SeatOf

-----------------------------------------------------------------------------
(* A step of the call c on behalf of the join k.                           *)

StepFor(c, k) ==
  /\ k \in Join /\ result[k.player] # NoRoom /\ (k.retry => entry[k.player] # << >>)
  /\ call[c] # << >> => call[c].player = k.player
  /\ OtherLoads(c)
  /\ UNCHANGED <<appointed, result>>
  /\ joins' \in [Players -> Nat] /\ tried' \in [Players -> Nat]
  /\ slipped \subseteq slipped' /\ slipped' \subseteq Players
  /\ \A p \in Players \ {k.player} : (p \in slipped' <=> p \in slipped) /\ tried'[p] = tried[p]
  /\ k.player \notin slipped' => Under(k.player) \subseteq {c} /\ Counts(k)

\* PlayerInv follows from what happens to the player of the join.
LEMMA PlayersStep ==
  ASSUME Inv, NEW c \in Calls, NEW k, StepFor(c, k), NEW x, call' = [call EXCEPT ![c] = x],
         x # << >> => x.player = k.player,
         \A p \in Players \ {k.player} :
           /\ entry'[p] = entry[p] /\ (p \in timer' <=> p \in timer)
           /\ at'[p] = at[p] /\ \A r \in Rooms : seats'[r][p] = seats[r][p],
         k.player \notin slipped' => SeatOf(k.player)' /\ RetryOf(k.player)'
  PROVE  PlayerInv'
<1>1. TypeOK /\ PlayerInv /\ k.player \in Players /\ DOMAIN call = Calls
  BY InvTypes DEF StepFor, TypeOK, Join
<1>2. ASSUME NEW p \in Players, p \notin slipped', p # k.player
      PROVE  SeatOf(p)' /\ RetryOf(p)'
  <2>1. SeatOf(p) /\ RetryOf(p)
    BY <1>1, <1>2 DEF StepFor, PlayerInv
  <2>2. Same(p)
    BY <1>1, <1>2, OthersSame DEF StepFor
  <2> QED
    BY <1>1, <2>1, <2>2, SameKeeps
<1> QED
  BY <1>2 DEF PlayerInv

\* A join that ends.
LEMMA PlayersEnd ==
  ASSUME Inv, NEW c \in Calls, NEW k, StepFor(c, k), NEW out, Ends(c, k, out),
         k.retry /\ out = "thrown" => k.player \in slipped',
         \A p \in Players \ {k.player} :
           at'[p] = at[p] /\ \A r \in Rooms : seats'[r][p] = seats[r][p],
         k.player \notin slipped' /\ Under(k.player)' = {} => SeatOf(k.player)'
  PROVE  PlayerInv'
<1>1. TypeOK /\ k \in Join /\ call' = [call EXCEPT ![c] = << >>] /\ DOMAIN call = Calls
  BY InvTypes DEF StepFor, Ends, TypeOK
<1>2. \A p \in Players \ {k.player} : entry'[p] = entry[p] /\ (p \in timer' <=> p \in timer)
  BY <1>1, EndsEffect DEF StepFor
<1>3. k.player \notin slipped' => SeatOf(k.player)' /\ RetryOf(k.player)'
  <2> SUFFICES ASSUME k.player \notin slipped' PROVE SeatOf(k.player)' /\ RetryOf(k.player)'
    OBVIOUS
  <2>1. Under(k.player) \subseteq {c} /\ Counts(k)
    BY DEF StepFor
  <2>2. Under(k.player)' = {}
    BY <1>1, <2>1 DEF Under
  <2>3. RetryOf(k.player)'
    BY <1>1, <2>1, CountsEnds DEF StepFor
  <2> QED
    BY <2>2, <2>3
<1> QED
  BY <1>1, <1>2, <1>3, PlayersStep

LEMMA CallTypes ==
  ASSUME TypeOK, NEW c \in Calls, NEW x, call' = [call EXCEPT ![c] = x], x = << >> \/ x \in Join,
         OtherLoads(c), load'[c] # << >> <=> x # << >> /\ x.room = NoRoom
  PROVE  /\ DOMAIN call' = Calls /\ call'[c] = x /\ \A d \in Calls \ {c} : call'[d] = call[d]
         /\ \A d \in Calls : call'[d] # << >> => call'[d] \in Join
         /\ \A d \in Calls : load'[d] # << >> <=> call'[d] # << >> /\ call'[d].room = NoRoom
<1>1. DOMAIN call' = Calls /\ call'[c] = x /\ \A d \in Calls \ {c} : call'[d] = call[d]
  BY DEF TypeOK
<1> QED
  BY <1>1 DEF TypeOK, OtherLoads

\* The call ends, and rooms that are open stay so.
LEMMA CallInvEnds ==
  ASSUME Inv, NEW c \in Calls, NEW k, StepFor(c, k), NEW out, Ends(c, k, out), load'[c] = << >>,
         \A r \in Rooms : IsOpen(r) => IsOpen(r)'
  PROVE  CallInv'
<1>1. /\ TypeOK /\ CallInv /\ k \in Join /\ k.player \in Players
      /\ (k.retry => entry[k.player] # << >>)
  BY InvTypes DEF StepFor, Join
<1>2. /\ DOMAIN call' = Calls /\ call'[c] = << >> /\ \A d \in Calls \ {c} : call'[d] = call[d]
      /\ \A p \in Players : /\ entry[p] # << >> => entry'[p] # << >>
                            /\ entry'[p] # << >> => entry[p] # << >> \/ p = k.player
  <2>1. call' = [call EXCEPT ![c] = << >>] /\ DOMAIN call = Calls
    BY <1>1 DEF Ends, TypeOK
  <2>2. \A p \in Players : /\ entry[p] # << >> => entry'[p] # << >>
                           /\ entry'[p] # << >> => entry[p] # << >> \/ p = k.player
    <3>1. k.retry => entry[k.player] # << >>
      BY <1>1
    <3>2. TypeOK /\ k \in Join
      BY <1>1
    <3> QED
      BY <3>1, <3>2, EndsEffect
  <2> QED
    BY <2>1, <2>2
<1>3. \A d \in Calls : load'[d] # << >> => load'[d].game = Game
  BY <1>1 DEF CallInv, StepFor, OtherLoads
<1>4. result' = result /\ result[k.player] # NoRoom
  BY DEF StepFor
<1>5. \A d \in Calls : call'[d] # << >> =>
        /\ call'[d] = call[d] /\ call[d].player \in Players /\ call[d].room \in Rooms \cup {NoRoom}
  BY <1>1, <1>2 DEF TypeOK, Join
<1>6. \A d \in Calls : WaitsForData(d)' => WaitsForData(d) /\ call'[d] = call[d] /\ call[d].room \in Rooms
  BY <1>5 DEF WaitsForData
<1>7. \A d \in Calls : call'[d] # << >> => result'[call'[d].player] # NoRoom
  BY <1>1, <1>4, <1>5 DEF CallInv
<1>8. \A d \in Calls : call'[d] # << >> /\ call'[d].retry => entry'[call'[d].player] # << >>
  <2> SUFFICES ASSUME NEW d \in Calls, call'[d] # << >>, call'[d].retry
               PROVE  entry'[call'[d].player] # << >>
    OBVIOUS
  <2>1. call'[d] = call[d] /\ call[d].player \in Players
    BY <1>5
  <2>2. call[d] # << >> /\ call[d].retry
    BY <2>1
  <2>3. entry[call[d].player] # << >>
    BY <1>1, <2>2 DEF CallInv
  <2> QED
    BY <1>2, <2>1, <2>3
<1>9. \A p \in Players : entry'[p] # << >> => result'[p] # NoRoom
  BY <1>1, <1>2, <1>4 DEF CallInv
<1>10. \A d \in Calls : (WaitsForData(d) /\ call[d].alive => IsOpen(call[d].room))'
  <2> SUFFICES ASSUME NEW d \in Calls, WaitsForData(d)', call'[d].alive
               PROVE  IsOpen(call[d].room)'
    OBVIOUS
  <2>1. WaitsForData(d) /\ call'[d] = call[d] /\ call[d].room \in Rooms
    BY <1>6
  <2>2. IsOpen(call[d].room)
    BY <1>1, <2>1 DEF CallInv
  <2> QED
    BY <2>1, <2>2 DEF IsOpen
<1> QED
  BY <1>3, <1>7, <1>8, <1>9, <1>10 DEF CallInv

\* A room the join enters, and the name it asks for.
LEMMA JoinRoom ==
  ASSUME Inv, NEW k \in Join, result[k.player] # NoRoom
  PROVE  result[k.player] \in Rooms /\ RoomName(k.asks) \in Names /\ k.player \in Players
  BY InvTypes, JoinRetryAssumption DEF Join, TypeOK, RoomName

-----------------------------------------------------------------------------
(* Game.enter.                                                             *)

\* A join that does not get a seat: it is refused, fails or is to be retried.
LEMMA NoSeatInv ==
  ASSUME Inv, CodeP!CodeInv', NEW c \in Calls, NEW k, StepFor(c, k), load'[c] = << >>,
         running' \in {0} \cup Code!Versions, running' # 0 => code'[Game] # 0,
         NEW out, out # "thrown", Ends(c, k, out),
         name' \in [Rooms -> Names \cup {NoName}], NamesAgree',
         UNCHANGED <<torn, runs, seats, at, known>>
  PROVE  Inv'
<1>1. TypeOK /\ k \in Join /\ call' = [call EXCEPT ![c] = << >>] /\ OtherLoads(c)
  BY InvTypes DEF StepFor, Ends
<1>2. /\ DOMAIN call' = Calls /\ call'[c] = << >> /\ \A d \in Calls \ {c} : call'[d] = call[d]
      /\ \A d \in Calls : call'[d] # << >> => call'[d] \in Join
      /\ \A d \in Calls : load'[d] # << >> <=> call'[d] # << >> /\ call'[d].room = NoRoom
  BY <1>1, CallTypes
<1>3. /\ DOMAIN entry' = Players /\ \A p \in Players : entry'[p] # << >> => entry'[p] \in Entry
      /\ timer' \subseteq {p \in Players : entry'[p] # << >>}
  <2>1. k.retry => entry[k.player] # << >>
    BY DEF StepFor
  <2> QED
    BY <1>1, <2>1, EndsEffect
<1>4. Code!TypeOK'
  BY CodeInvTypesNext
<1>5. TypeOK'
  BY <1>1, <1>2, <1>3, <1>4 DEF TypeOK, StepFor, Entry, IsOpen
<1>6. CallInv'
  BY CallInvEnds DEF IsOpen
<1>7. NameInv'
  BY <1>2, InvTypes DEF NameInv, WaitsForData, IsOpen
<1>8. PlayerInv'
  <2>1. ASSUME k.player \notin slipped', Under(k.player)' = {}
        PROVE  SeatOf(k.player)'
    <3>1. k.player \in Players /\ SeatOf(k.player)
      BY <1>1, <2>1, InvTypes DEF StepFor, PlayerInv, Join
    <3> QED
      BY <2>1, <3>1, SeatKept
  <2> QED
    BY <2>1, PlayersEnd
<1> QED
  BY <1>5, <1>6, <1>7, <1>8 DEF Inv

\* The join that Game.enter admits to the room r.
Admitted(k, r) == [k EXCEPT !.room = r, !.makes = ~IsOpen(r), !.alive = TRUE]

\* The room of the join k is open with the name the join asks for, and the player may
\* enter it.
Admits(k, r) ==
  /\ NameFits(r, RoomName(k.asks)) /\ FreeFor(k.player, r) /\ ~(seats[r][k.player] > 0)
  /\ IsOpen(r) \/ RoomName(k.asks) # NoName
  /\ runs' = IF ~IsOpen(r) THEN [runs EXCEPT ![r] = RoomName(k.asks)] ELSE runs

LEMMA AdmittedFields ==
  ASSUME NEW k \in Join, NEW r \in Rooms
  PROVE  LET x == Admitted(k, r)
         IN /\ x \in Join /\ x # << >> /\ x.player = k.player /\ x.asks = k.asks
            /\ x.retry = k.retry /\ x.count = k.count
            /\ x.room = r /\ x.makes = ~IsOpen(r) /\ x.alive = TRUE
<1>1. Admitted(k, r) \in Join
  BY DEF Admitted, Join, IsOpen
<1>2. Admitted(k, r) # << >>
  <2>1. DOMAIN k = {"player", "asks", "retry", "count", "room", "makes", "alive"}
    BY DEF Join
  <2>2. "player" \in DOMAIN Admitted(k, r)
    BY <2>1 DEF Admitted
  <2>3. DOMAIN << >> = {}
    OBVIOUS
  <2> QED
    BY <2>2, <2>3
<1> QED
  BY <1>1, <1>2 DEF Admitted, Join

\* The room is open, for the joins that are under way as well.
LEMMA AdmitsRoom ==
  ASSUME Inv, NEW k \in Join, NEW r \in Rooms, Admits(k, r), RoomName(k.asks) \in Names
  PROVE  /\ runs' \in [Rooms -> Names \cup {NoName}]
         /\ runs'[r] # NoName /\ \A s \in Rooms \ {r} : runs'[s] = runs[s]
         /\ IsOpen(r) => runs' = runs
         /\ ~IsOpen(r) => runs'[r] = RoomName(k.asks)
         /\ \A s \in Rooms : IsOpen(s) => IsOpen(s)' /\ runs'[s] = runs[s]
         /\ seats[r][k.player] = 0 /\ at[k.player] \in {NoRoom, r}
<1>1. /\ runs \in [Rooms -> Names \cup {NoName}] /\ k.player \in Players
      /\ seats \in [Rooms -> [Players -> Nat]]
  BY InvTypes DEF TypeOK, Join
<1>2. seats[r][k.player] = 0 /\ at[k.player] \in {NoRoom, r}
  BY <1>1 DEF Admits, FreeFor
<1>3. CASE IsOpen(r)
  BY <1>1, <1>2, <1>3 DEF Admits, IsOpen
<1>4. CASE ~IsOpen(r)
  BY <1>1, <1>2, <1>4, NoNames DEF Admits, IsOpen
<1> QED
  BY <1>3, <1>4

\* The join waits for the player's data.
LEMMA EnterWaits ==
  ASSUME Inv, CodeP!CodeInv', NEW c \in Calls, NEW k, NEW v \in Code!Versions, StepFor(c, k),
         load'[c] = << >>, code'[Game] # 0, running' = v, Admits(k, result[k.player]),
         call' = [call EXCEPT ![c] = Admitted(k, result[k.player])],
         UNCHANGED <<torn, name, seats, at, known, entry, timer>>
  PROVE  Inv'
<1> DEFINE r == result[k.player]
           x == Admitted(k, r)
<1>1. TypeOK /\ CallInv /\ NameInv /\ PlayerInv /\ k \in Join /\ OtherLoads(c)
  BY InvTypes DEF StepFor
<1>2. r \in Rooms /\ RoomName(k.asks) \in Names /\ k.player \in Players
  BY <1>1, JoinRoom DEF StepFor
<1>3. /\ x \in Join /\ x # << >> /\ x.player = k.player /\ x.asks = k.asks
      /\ x.retry = k.retry /\ x.count = k.count
      /\ x.room = r /\ x.makes = ~IsOpen(r) /\ x.alive = TRUE
  BY <1>1, <1>2, AdmittedFields
<1>4. /\ runs' \in [Rooms -> Names \cup {NoName}]
      /\ runs'[r] # NoName /\ \A s \in Rooms \ {r} : runs'[s] = runs[s]
      /\ IsOpen(r) => runs' = runs
      /\ ~IsOpen(r) => runs'[r] = RoomName(k.asks)
      /\ \A s \in Rooms : IsOpen(s) => IsOpen(s)' /\ runs'[s] = runs[s]
      /\ seats[r][k.player] = 0 /\ at[k.player] \in {NoRoom, r}
  BY <1>1, <1>2, AdmitsRoom
<1>5. name[r] \in {NoName, RoomName(k.asks)}
  BY DEF Admits, NameFits
<1>6. call' = [call EXCEPT ![c] = x]
  OBVIOUS
<1> HIDE DEF r, x
<1>7. /\ DOMAIN call' = Calls /\ call'[c] = x /\ \A d \in Calls \ {c} : call'[d] = call[d]
      /\ \A d \in Calls : call'[d] # << >> => call'[d] \in Join
      /\ \A d \in Calls : load'[d] # << >> <=> call'[d] # << >> /\ call'[d].room = NoRoom
  BY <1>1, <1>2, <1>3, <1>6, NoNames, CallTypes
<1>8. Code!TypeOK'
  BY CodeInvTypesNext
<1>9. TypeOK'
  <2>1. DOMAIN entry = Players /\ \A p \in Players : entry[p] # << >> => entry[p] \in Entry
    BY <1>1 DEF TypeOK, Entry
  <2>2. \A s \in Rooms : ~IsOpen(s)' => ~IsOpen(s)
    BY <1>4
  <2>3. \A s \in Rooms : ~IsOpen(s)' => seats'[s] = Nobody
    BY <1>1, <2>2 DEF TypeOK
  <2> QED
    BY <1>1, <1>4, <1>7, <1>8, <2>3 DEF TypeOK, StepFor
<1>10. CallInv'
  <2>1. \A d \in Calls : load'[d] # << >> => load'[d].game = Game
    BY <1>1 DEF CallInv, OtherLoads
  <2>2. result' = result /\ result[k.player] # NoRoom /\ (k.retry => entry[k.player] # << >>)
    BY DEF StepFor
  <2>3. \A d \in Calls : call'[d] # << >> => result'[call'[d].player] # NoRoom
    BY <1>1, <1>3, <1>7, <2>2 DEF CallInv
  <2>4. \A d \in Calls : call'[d] # << >> /\ call'[d].retry => entry'[call'[d].player] # << >>
    BY <1>1, <1>3, <1>7, <2>2 DEF CallInv
  <2>5. \A d \in Calls : (WaitsForData(d) /\ call[d].alive => IsOpen(call[d].room))'
    BY <1>1, <1>3, <1>4, <1>7 DEF CallInv, WaitsForData, IsOpen, TypeOK, Join
  <2> QED
    BY <1>1, <2>1, <2>2, <2>3, <2>4, <2>5 DEF CallInv
<1>11. NameInv'
  <2>1. NamesAgree'
    BY <1>1, <1>4, <1>5 DEF NameInv, NamesAgree, IsOpen
  <2>2. ASSUME NEW d \in Calls, WaitsForData(d)', call'[d].makes, call'[d].room \notin torn
        PROVE  IsOpen(call[d].room)' /\ runs'[call'[d].room] = RoomName(call'[d].asks)
    <3>1. CASE d = c
      BY <1>3, <1>4, <1>7, <2>2, <3>1 DEF IsOpen
    <3>2. CASE d # c
      <4>1. WaitsForData(d) /\ call'[d] = call[d] /\ call[d].room \in Rooms
        BY <1>1, <1>7, <2>2, <3>2 DEF WaitsForData, TypeOK, Join
      <4>2. IsOpen(call[d].room) /\ runs[call[d].room] = RoomName(call[d].asks)
        BY <1>1, <2>2, <4>1 DEF NameInv
      <4> QED
        BY <1>4, <4>1, <4>2 DEF IsOpen
    <3> QED
      BY <3>1, <3>2
  <2> QED
    BY <2>1, <2>2 DEF NameInv
<1>12. PlayerInv'
  <2>1. ASSUME k.player \notin slipped' PROVE SeatOf(k.player)' /\ RetryOf(k.player)'
    <3>1. Under(k.player) \subseteq {c} /\ Counts(k) /\ k.player \notin slipped
      BY <2>1 DEF StepFor
    <3>2. RetryOf(k.player)' /\ Under(k.player)' = {c}
      <4>1. TypeOK /\ k \in Join /\ x # << >> /\ UNCHANGED <<entry, timer>>
        BY <1>1, <1>3
      <4>2. x.player = k.player /\ x.retry = k.retry /\ x.count = k.count
        BY <1>3
      <4> QED
        BY <1>6, <3>1, <4>1, <4>2, CountsWaits
    <3>3. SeatOf(k.player)
      BY <1>1, <1>2, <3>1 DEF PlayerInv
    <3>4. SeatOf(k.player)'
      BY <1>3, <1>4, <1>7, <3>2, <3>3 DEF SeatOf
    <3> QED
      BY <3>2, <3>4
  <2> QED
    BY <1>3, <1>6, <2>1, PlayersStep
<1> QED
  BY <1>9, <1>10, <1>11, <1>12 DEF Inv

\* The rooms when the join x, that may have created its room, gets its seat.
RoomsFor(x) ==
  /\ runs' \in [Rooms -> Names \cup {NoName}]
  /\ \A s \in Rooms : IsOpen(s) => runs'[s] = runs[s]
  /\ \A s \in Rooms \ {x.room} : runs'[s] = runs[s]
  /\ x.alive => runs'[x.room] # NoName
  /\ x.makes /\ x.room \notin torn => runs'[x.room] = RoomName(x.asks)
  /\ ~x.makes => runs' = runs

\* The player gets its seat, and the join ends.
LEMMA SeatsInv ==
  ASSUME Inv, CodeP!CodeInv', NEW c \in Calls, NEW k, StepFor(c, k), load'[c] = << >>,
         running' \in {0} \cup Code!Versions, running' # 0 => code'[Game] # 0,
         NEW x \in Join, x.player = k.player, x.room \in Rooms, RoomName(x.asks) \in Names,
         RoomsFor(x), Seated(x), NEW out, Ends(c, k, out), UNCHANGED torn,
         k.retry /\ out = "thrown" => k.player \in slipped',
         k.player \notin slipped' =>
           seats[x.room][k.player] = 0 /\ at[k.player] \in {NoRoom, x.room}
  PROVE  Inv'
<1> DEFINE r == x.room
<1>1. TypeOK /\ k \in Join /\ call' = [call EXCEPT ![c] = << >>] /\ OtherLoads(c)
  BY InvTypes DEF StepFor, Ends
<1>2. /\ DOMAIN call' = Calls /\ call'[c] = << >> /\ \A d \in Calls \ {c} : call'[d] = call[d]
      /\ \A d \in Calls : call'[d] # << >> => call'[d] \in Join
      /\ \A d \in Calls : load'[d] # << >> <=> call'[d] # << >> /\ call'[d].room = NoRoom
  BY <1>1, CallTypes
<1>3. /\ DOMAIN entry' = Players /\ \A p \in Players : entry'[p] # << >> => entry'[p] \in Entry
      /\ timer' \subseteq {p \in Players : entry'[p] # << >>}
  <2>1. k.retry => entry[k.player] # << >>
    BY DEF StepFor
  <2> QED
    BY <1>1, <2>1, EndsEffect
<1>4. Code!TypeOK'
  BY CodeInvTypesNext
<1>5. /\ seats' \in [Rooms -> [Players -> Nat]] /\ at' \in [Players -> Rooms \cup {NoRoom}]
      /\ known' \subseteq Players /\ name' \in [Rooms -> Names \cup {NoName}]
      /\ \A p \in Players \ {k.player} :
           at'[p] = at[p] /\ \A s \in Rooms : seats'[s][p] = seats[s][p]
      /\ \A s \in Rooms \ {r} : seats'[s] = seats[s]
      /\ ~x.alive => seats' = seats
  BY <1>1, SeatedTypes
<1>6. TypeOK'
  <2>1. \A s \in Rooms : ~IsOpen(s)' => seats'[s] = Nobody
    <3> SUFFICES ASSUME NEW s \in Rooms, ~IsOpen(s)' PROVE seats'[s] = Nobody
      OBVIOUS
    <3>1. ~IsOpen(s)
      BY DEF RoomsFor, IsOpen
    <3>2. seats[s] = Nobody
      BY <1>1, <3>1 DEF TypeOK
    <3>3. s = r => ~x.alive
      BY DEF RoomsFor, IsOpen
    <3> QED
      BY <1>5, <3>2, <3>3
  <2>2. runs' \in [Rooms -> Names \cup {NoName}]
    BY DEF RoomsFor
  <2> QED
    BY <1>1, <1>2, <1>3, <1>4, <1>5, <2>1, <2>2 DEF TypeOK, StepFor, Entry
<1>7. CallInv'
  <2>1. \A s \in Rooms : IsOpen(s) => IsOpen(s)'
    BY DEF RoomsFor, IsOpen
  <2> QED
    BY <2>1, CallInvEnds
<1>8. NameInv'
  <2>1. NameInv /\ name \in [Rooms -> Names \cup {NoName}]
    BY InvTypes DEF TypeOK
  <2>2. NamesAgree'
    <3> SUFFICES ASSUME NEW s \in Rooms, s \notin torn, IsOpen(s)', name'[s] # NoName
                 PROVE  name'[s] = runs'[s]
      BY DEF NamesAgree
    <3>1. CASE x.makes /\ s = r
      <4>1. name'[r] = RoomName(x.asks)
        BY <2>1, <3>1 DEF Seated
      <4> QED
        BY <3>1, <4>1 DEF RoomsFor
    <3>2. CASE ~(x.makes /\ s = r)
      <4>1. name'[s] = name[s] /\ runs'[s] = runs[s]
        BY <2>1, <3>2 DEF Seated, RoomsFor
      <4> QED
        BY <2>1, <4>1 DEF NameInv, NamesAgree, IsOpen
    <3> QED
      BY <3>1, <3>2
  <2>3. ASSUME NEW d \in Calls, WaitsForData(d)', call'[d].makes, call'[d].room \notin torn
        PROVE  IsOpen(call[d].room)' /\ runs'[call'[d].room] = RoomName(call'[d].asks)
    <3>1. call'[d] = call[d] /\ call[d].room \in Rooms /\ WaitsForData(d)
      BY <1>1, <1>2, <2>3 DEF WaitsForData, TypeOK, Join
    <3>2. IsOpen(call[d].room) /\ runs[call[d].room] = RoomName(call[d].asks)
      BY <2>1, <2>3, <3>1 DEF NameInv
    <3> QED
      BY <3>1, <3>2 DEF RoomsFor, IsOpen
  <2> QED
    BY <2>2, <2>3 DEF NameInv
<1>9. PlayerInv'
  <2>1. ASSUME k.player \notin slipped', Under(k.player)' = {}
        PROVE  SeatOf(k.player)'
    <3>1. k.player \in Players /\ SeatOf(k.player)
      BY <1>1, <2>1, InvTypes DEF StepFor, PlayerInv, Join
    <3>2. seats[x.room][x.player] = 0 /\ at[x.player] \in {NoRoom, x.room}
      BY <2>1
    <3>3. SeatOf(x.player) /\ Under(x.player)' = {}
      BY <2>1, <3>1
    <3>4. SeatOf(x.player)'
      BY <1>1, <3>2, <3>3, SeatTaken
    <3> QED
      BY <3>4
  <2> QED
    BY <1>5, <2>1, PlayersEnd
<1> QED
  BY <1>6, <1>7, <1>8, <1>9 DEF Inv

\* A join comes as far as it does when the game's code is there.
LEMMA EnterInv ==
  ASSUME Inv, CodeP!CodeInv', NEW c \in Calls, NEW k, NEW v \in Code!Versions, StepFor(c, k),
         load'[c] = << >>, code'[Game] # 0, Enter(c, k, v)
  PROVE  Inv'
<1> DEFINE r == result[k.player]
           n == RoomName(k.asks)
           x == Admitted(k, r)
<1>1. /\ k \in Join /\ r \in Rooms /\ n \in Names /\ k.player \in Players
      /\ Offers \in [Code!Versions -> SUBSET Names]
  BY JoinRoom, JoinRetryAssumption DEF StepFor
<1>2. running' = v /\ UNCHANGED torn /\ v # 0
  BY DEF Enter, Code!Versions
<1>3. ASSUME NEW out, out # "thrown", Ends(c, k, out), UNCHANGED <<name, runs, seats, at, known>>
      PROVE  Inv'
  <2>1. name' \in [Rooms -> Names \cup {NoName}] /\ NamesAgree'
    <3>1. name \in [Rooms -> Names \cup {NoName}] /\ NamesAgree
      BY InvTypes DEF TypeOK, NameInv
    <3> QED
      BY <1>2, <1>3, <3>1 DEF NamesAgree, IsOpen
  <2> QED
    BY <1>2, <1>3, <2>1, NoSeatInv
<1>4. CASE Admits(k, r) /\ k \in Join /\ call' = [call EXCEPT ![c] = x]
           /\ UNCHANGED <<name, seats, at, known, retryVars>>
  BY <1>2, <1>4, EnterWaits DEF retryVars
<1>5. CASE Admits(k, r) /\ Seated(x) /\ Ends(c, k, "done")
  <2>1. /\ x \in Join /\ x.player = k.player /\ x.asks = k.asks /\ x.room = r
        /\ x.makes = ~IsOpen(r) /\ x.alive = TRUE
    BY <1>1, AdmittedFields
  <2> HIDE DEF x, r
  <2>2. /\ runs' \in [Rooms -> Names \cup {NoName}]
        /\ runs'[r] # NoName /\ \A s \in Rooms \ {r} : runs'[s] = runs[s]
        /\ IsOpen(r) => runs' = runs
        /\ ~IsOpen(r) => runs'[r] = n
        /\ \A s \in Rooms : IsOpen(s) => IsOpen(s)' /\ runs'[s] = runs[s]
        /\ seats[r][k.player] = 0 /\ at[k.player] \in {NoRoom, r}
    BY <1>1, <1>5, AdmitsRoom
  <2>3. RoomsFor(x)
    <3>1. RoomName(x.asks) = n
      BY <2>1
    <3> HIDE DEF n
    <3> QED
      BY <2>1, <2>2, <3>1 DEF RoomsFor, IsOpen
  <2> QED
    BY <1>1, <1>2, <1>5, <2>1, <2>2, <2>3, SeatsInv
<1>6. \/ Ends(c, k, "retry") /\ UNCHANGED <<name, runs, seats, at, known>>
      \/ Ends(c, k, "failed") /\ UNCHANGED <<name, runs, seats, at, known>>
      \/ /\ Admits(k, r)
         /\ \/ Seated(x) /\ Ends(c, k, "done")
            \/ call' = [call EXCEPT ![c] = x] /\ UNCHANGED <<name, seats, at, known, retryVars>>
  <2>1. n # NoName
    BY <1>1, NoNames
  <2>2. x.makes = ~IsOpen(r)
    BY <1>1, AdmittedFields
  <2>3. \/ Ends(c, k, "retry") /\ UNCHANGED <<name, runs, seats, at, known>>
        \/ Ends(c, k, "failed") /\ UNCHANGED <<name, runs, seats, at, known>>
        \/ /\ NameFits(r, n) /\ FreeFor(k.player, r) /\ ~(seats[r][k.player] > 0)
           /\ runs' = IF x.makes THEN [runs EXCEPT ![r] = n] ELSE runs
           /\ \/ Seated(x) /\ Ends(c, k, "done")
              \/ call' = [call EXCEPT ![c] = x] /\ UNCHANGED <<name, seats, at, known, retryVars>>
    BY DEF Enter, Admitted
  <2> HIDE DEF x, r
  <2> QED
    BY <2>1, <2>2, <2>3 DEF Admits
<1> QED
  BY <1>1, <1>3, <1>4, <1>5, <1>6

-----------------------------------------------------------------------------
(* Joins that begin.                                                       *)

\* The join loads the game's code.
LEMMA BeginsLoads ==
  ASSUME Inv, CodeP!CodeInv', NEW c \in Calls, NEW k, StepFor(c, k), k.room = NoRoom,
         Code!GetGame(c, Game), code[Game] = 0, call' = [call EXCEPT ![c] = k],
         UNCHANGED <<roomVars, retryVars>>
  PROVE  Inv'
<1>1. /\ TypeOK /\ CallInv /\ NameInv /\ PlayerInv /\ Code!TypeOK
      /\ k \in Join /\ k.player \in Players /\ OtherLoads(c)
      /\ result' = result /\ result[k.player] # NoRoom
      /\ (k.retry => entry[k.player] # << >>)
  BY InvTypes DEF StepFor, Join
<1>2. load'[c] # << >> /\ load'[c].game = Game /\ UNCHANGED code
  BY <1>1, LoadSteps, JoinRetryAssumption
<1>3. k # << >>
  <2>1. "player" \in DOMAIN k
    BY <1>1 DEF Join
  <2>2. DOMAIN << >> = {}
    OBVIOUS
  <2> QED
    BY <2>1, <2>2
<1>4. /\ DOMAIN call' = Calls /\ call'[c] = k /\ \A d \in Calls \ {c} : call'[d] = call[d]
      /\ \A d \in Calls : call'[d] # << >> => call'[d] \in Join
      /\ \A d \in Calls : load'[d] # << >> <=> call'[d] # << >> /\ call'[d].room = NoRoom
  BY <1>1, <1>2, <1>3, CallTypes
<1>5. /\ running' = running /\ name' = name /\ runs' = runs /\ seats' = seats /\ at' = at
      /\ known' = known /\ torn' = torn /\ entry' = entry /\ timer' = timer
  BY DEF roomVars, retryVars
<1>6. Code!TypeOK'
  BY CodeInvTypesNext
<1>7. TypeOK'
  BY <1>1, <1>2, <1>4, <1>5, <1>6 DEF TypeOK, StepFor, IsOpen
<1>8. CallInv'
  <2>1. \A d \in Calls : load'[d] # << >> => load'[d].game = Game
    BY <1>1, <1>2 DEF CallInv, OtherLoads
  <2>2. \A d \in Calls : call'[d] # << >> => result'[call'[d].player] # NoRoom
    BY <1>1, <1>4 DEF CallInv
  <2>3. \A d \in Calls : call'[d] # << >> /\ call'[d].retry => entry'[call'[d].player] # << >>
    BY <1>1, <1>4, <1>5 DEF CallInv
  <2>4. \A d \in Calls : (WaitsForData(d) /\ call[d].alive => IsOpen(call[d].room))'
    <3> SUFFICES ASSUME NEW d \in Calls, WaitsForData(d)', call'[d].alive
                 PROVE  IsOpen(call[d].room)'
      OBVIOUS
    <3>1. WaitsForData(d) /\ call'[d] = call[d]
      BY <1>4 DEF WaitsForData
    <3> QED
      BY <1>1, <1>5, <3>1 DEF CallInv, IsOpen
  <2> QED
    BY <1>1, <1>5, <2>1, <2>2, <2>3, <2>4 DEF CallInv
<1>9. NameInv'
  BY <1>1, <1>4, <1>5 DEF NameInv, NamesAgree, WaitsForData, IsOpen
<1>10. PlayerInv'
  <2>1. ASSUME k.player \notin slipped' PROVE SeatOf(k.player)' /\ RetryOf(k.player)'
    <3>1. Under(k.player) \subseteq {c} /\ Counts(k) /\ k.player \notin slipped
      BY <2>1 DEF StepFor
    <3>2. RetryOf(k.player)' /\ Under(k.player)' = {c}
      BY <1>1, <1>3, <1>5, <3>1, CountsWaits
    <3>3. SeatOf(k.player)
      BY <1>1, <3>1 DEF PlayerInv
    <3>4. SeatOf(k.player)'
      BY <1>4, <1>5, <3>2, <3>3 DEF SeatOf
    <3> QED
      BY <3>2, <3>4
  <2> QED
    BY <1>1, <1>5, <2>1, PlayersStep
<1> QED
  BY <1>7, <1>8, <1>9, <1>10 DEF Inv

LEMMA BeginsInv ==
  ASSUME Inv, CodeP!CodeInv', NEW c \in Calls, NEW k \in Join, k.room = NoRoom,
         result[k.player] # NoRoom, k.retry => entry[k.player] # << >>,
         UNCHANGED <<appointed, result>>,
         joins' \in [Players -> Nat], tried' \in [Players -> Nat],
         \A p \in Players \ {k.player} : tried'[p] = tried[p],
         k.player \notin slipped /\ Under(k.player) = {} => Counts(k),
         Begins(c, k)
  PROVE  Inv'
<1>1. TypeOK /\ Code!TypeOK /\ k.player \in Players /\ call[c] = << >> /\ load[c] = << >>
  BY InvTypes DEF TypeOK, Join, Begins
<1>2. /\ slipped \subseteq slipped' /\ slipped' \subseteq Players
      /\ \A p \in Players \ {k.player} : p \in slipped' <=> p \in slipped
      /\ k.player \notin slipped' => k.player \notin slipped /\ Under(k.player) = {}
  BY <1>1 DEF Begins, TypeOK
<1>3. ASSUME OtherLoads(c) PROVE StepFor(c, k)
  <2>1. k.player \notin slipped' => Under(k.player) \subseteq {c} /\ Counts(k)
    BY <1>2
  <2> QED
    BY <1>1, <1>2, <1>3, <2>1 DEF StepFor
<1>4. CASE code[Game] # 0
  <2>1. UNCHANGED codeVars /\ Enter(c, k, IF running = 0 THEN code[Game] ELSE running)
    BY <1>4 DEF Begins
  <2>2. load'[c] = << >> /\ OtherLoads(c) /\ code'[Game] # 0
    BY <1>1, <1>4, <2>1 DEF codeVars, OtherLoads
  <2>3. (IF running = 0 THEN code[Game] ELSE running) \in Code!Versions
    BY <1>1, <1>4, JoinRetryAssumption DEF TypeOK, Code!TypeOK
  <2> QED
    BY <1>3, <2>1, <2>2, <2>3, EnterInv
<1>5. CASE code[Game] = 0
  <2>1. /\ Code!GetGame(c, Game) /\ call' = [call EXCEPT ![c] = k]
        /\ UNCHANGED <<roomVars, retryVars>>
    BY <1>5 DEF Begins
  <2>2. OtherLoads(c)
    BY <1>1, <2>1, LoadSteps, JoinRetryAssumption
  <2> QED
    BY <1>3, <1>5, <2>1, <2>2, BeginsLoads
<1> QED
  BY <1>4, <1>5

-----------------------------------------------------------------------------
(* The steps.                                                              *)

\* Steps that leave the joins, the rooms and the retries alone.
LEMMA QuietInv ==
  ASSUME Inv, CodeP!CodeInv', [Next]_vars,
         UNCHANGED <<roomVars, retryVars, call, tried, slipped>>,
         \A d \in Calls : /\ load'[d] # << >> <=> load[d] # << >>
                          /\ load'[d] # << >> => load'[d].game = load[d].game,
         appointed' \subseteq Rooms, result' \in [Players -> Rooms \cup {NoRoom}],
         \A p \in Players : result[p] # NoRoom => result'[p] # NoRoom,
         joins' \in [Players -> Nat]
  PROVE  Inv'
<1>1. TypeOK /\ CallInv /\ NameInv /\ PlayerInv /\ Code!TypeOK
  BY InvTypes
<1>2. /\ running' = running /\ name' = name /\ runs' = runs /\ seats' = seats /\ at' = at
      /\ known' = known /\ torn' = torn /\ entry' = entry /\ timer' = timer
      /\ call' = call /\ tried' = tried /\ slipped' = slipped
  BY DEF roomVars, retryVars
<1>3. Code!TypeOK' /\ (running' # 0 => code'[Game] # 0)
  BY <1>1, <1>2, CodeInvTypesNext, CodeStays DEF TypeOK
<1>4. TypeOK'
  BY <1>1, <1>2, <1>3 DEF TypeOK, IsOpen
<1>5. CallInv'
  <2>1. \A d \in Calls : call[d] # << >> => call[d].player \in Players
    BY <1>1 DEF TypeOK, Join
  <2> QED
    BY <1>1, <1>2, <2>1 DEF CallInv, WaitsForData, IsOpen
<1>6. NameInv'
  BY <1>1, <1>2 DEF NameInv, NamesAgree, WaitsForData, IsOpen
<1>7. ASSUME NEW p \in Players \ slipped' PROVE SeatOf(p)' /\ RetryOf(p)'
  BY <1>1, <1>2 DEF PlayerInv, SeatOf, RetryOf, Under
<1> QED
  BY <1>4, <1>5, <1>6, <1>7 DEF Inv, PlayerInv

LEMMA AppointInv ==
  ASSUME Inv, CodeP!CodeInv', [Next]_vars, NEW r \in Rooms, Appoint(r)
  PROVE  Inv'
<1>1. /\ result \in [Players -> Rooms \cup {NoRoom}] /\ appointed \subseteq Rooms
      /\ joins \in [Players -> Nat] /\ r # NoRoom
  BY InvTypes, NoNames DEF TypeOK
<1>2. load' = load /\ joins' = joins /\ appointed' \subseteq Rooms
      /\ UNCHANGED <<roomVars, retryVars, call, tried, slipped>>
  BY <1>1 DEF Appoint, codeVars
<1>3. /\ result' \in [Players -> Rooms \cup {NoRoom}]
      /\ \A p \in Players : result[p] # NoRoom => result'[p] # NoRoom
  BY <1>1 DEF Appoint
<1> QED
  BY <1>1, <1>2, <1>3, QuietInv

LEMMA RequestInv ==
  ASSUME Inv, CodeP!CodeInv', NEW c \in Calls, NEW p \in Players, NEW asks \in Asks[p],
         Request(c, p, asks)
  PROVE  Inv'
<1> DEFINE k == [player |-> p, asks |-> asks, retry |-> FALSE, count |-> 0,
                 room |-> NoRoom, makes |-> FALSE, alive |-> FALSE]
<1>1. /\ joins \in [Players -> Nat] /\ tried \in [Players -> Nat]
      /\ asks \in Names \cup {Hash}
  BY InvTypes, JoinRetryAssumption DEF TypeOK
<1>2. k \in Join
  BY <1>1 DEF Join
<1>3. joins' \in [Players -> Nat] /\ tried' = tried
  BY <1>1 DEF Request
<1>4. ASSUME k.player \notin slipped, Under(k.player) = {} PROVE Counts(k)
  <2>1. RetryOf(p)
    BY <1>4, InvTypes DEF PlayerInv
  <2> QED
    BY <1>3, <1>4, <2>1 DEF RetryOf, Counts
<1>5. Begins(c, k) /\ result[p] # NoRoom /\ UNCHANGED <<appointed, result>>
  BY DEF Request
<1> QED
  BY <1>1, <1>2, <1>3, <1>4, <1>5, BeginsInv

LEMMA RetryFiresInv ==
  ASSUME Inv, CodeP!CodeInv', NEW c \in Calls, NEW p \in Players, RetryFires(c, p)
  PROVE  Inv'
<1> DEFINE k == [player |-> p, asks |-> entry[p].asks, retry |-> TRUE, count |-> entry[p].count,
                 room |-> NoRoom, makes |-> FALSE, alive |-> FALSE]
<1>1. /\ joins \in [Players -> Nat] /\ tried \in [Players -> Nat] /\ p \in timer
      /\ entry[p] # << >> /\ result[p] # NoRoom
  BY InvTypes DEF TypeOK, RetryFires, CallInv
<1>2. entry[p].asks \in Names \cup {Hash} /\ entry[p].count \in Nat
  BY <1>1, InvTypes DEF TypeOK
<1>3. k \in Join
  BY <1>2 DEF Join
<1>4. /\ tried' \in [Players -> Nat] /\ tried'[p] = tried[p] + 1 /\ joins' = joins
      /\ \A q \in Players \ {p} : tried'[q] = tried[q]
  BY <1>1 DEF RetryFires
<1>5. ASSUME k.player \notin slipped, Under(k.player) = {} PROVE Counts(k)
  <2>1. RetryOf(p)
    BY <1>5, InvTypes DEF PlayerInv
  <2>2. entry[p].count <= 2 /\ tried[p] = entry[p].count
    BY <1>1, <1>5, <2>1 DEF RetryOf
  <2> QED
    BY <1>1, <1>4, <2>2 DEF Counts
<1>6. Begins(c, k) /\ UNCHANGED <<appointed, result>>
  BY DEF RetryFires
<1> QED
  BY <1>1, <1>3, <1>4, <1>5, <1>6, BeginsInv

\* A step of the call c, that is under way.
LEMMA CallStep ==
  ASSUME Inv, NEW c \in Calls, call[c] # << >>, OtherLoads(c),
         UNCHANGED <<appointed, result, joins, tried>>,
         slipped' \in {slipped, slipped \cup {call[c].player}}
  PROVE  StepFor(c, call[c])
<1> DEFINE k == call[c]
<1>1. /\ TypeOK /\ k \in Join /\ k.player \in Players /\ result[k.player] # NoRoom
  BY InvTypes DEF TypeOK, CallInv, Join
<1>2. k.retry => entry[k.player] # << >>
  BY InvTypes DEF CallInv
<1>3. ASSUME k.player \notin slipped' PROVE Under(k.player) \subseteq {c} /\ Counts(k)
  <2>1. SeatOf(k.player) /\ RetryOf(k.player)
    BY <1>1, <1>3, InvTypes DEF PlayerInv
  <2>2. c \in Under(k.player)
    BY DEF Under
  <2>3. Under(k.player) = {c}
    BY <2>1, <2>2 DEF SeatOf
  <2> QED
    BY <2>1, <2>3, UnderWay
<1> QED
  BY <1>1, <1>2, <1>3 DEF StepFor, TypeOK

\* The call that waits for the game's code has a load of that game.
LEMMA CallLoads ==
  ASSUME Inv, NEW c \in Calls, load[c] # << >>
  PROVE  call[c] # << >> /\ call[c].room = NoRoom /\ load[c].game = Game
  BY InvTypes DEF TypeOK, CallInv

LEMMA CodeComesInv ==
  ASSUME Inv, CodeP!CodeInv', NEW c \in Calls, NEW v \in Code!Versions, CodeComes(c, v)
  PROVE  Inv'
<1>1. TypeOK /\ Code!TypeOK /\ Code!JoinGets(c, v) /\ call[c] # << >>
  BY InvTypes DEF CodeComes
<1>2. /\ load[c] # << >> /\ load'[c] = << >> /\ OtherLoads(c) /\ code'[load[c].game] = v
  BY <1>1, LoadSteps
<1>3. code'[Game] = v /\ v # 0
  BY <1>2, CallLoads DEF Code!Versions
<1>4. StepFor(c, call[c])
  BY <1>1, <1>2, CallStep DEF CodeComes
<1>5. (IF running = 0 THEN v ELSE running) \in Code!Versions
  BY <1>1 DEF TypeOK
<1>6. Enter(c, call[c], IF running = 0 THEN v ELSE running)
  BY DEF CodeComes
<1> QED
  BY <1>2, <1>3, <1>4, <1>5, <1>6, EnterInv

LEMMA CodeFailsInv ==
  ASSUME Inv, CodeP!CodeInv', NEW c \in Calls, CodeFails(c)
  PROVE  Inv'
<1>1. TypeOK /\ Code!TypeOK /\ NameInv
  BY InvTypes
<1>2. load[c] # << >> /\ load'[c] = << >> /\ OtherLoads(c) /\ UNCHANGED code
  BY <1>1, LoadSteps DEF CodeFails
<1>3. StepFor(c, call[c])
  BY <1>2, CallLoads, CallStep DEF CodeFails
<1>4. /\ running' = running /\ name' = name /\ UNCHANGED <<torn, runs, seats, at, known>>
  BY DEF CodeFails, roomVars
<1>5. /\ running' \in {0} \cup Code!Versions /\ (running' # 0 => code'[Game] # 0)
      /\ name' \in [Rooms -> Names \cup {NoName}] /\ NamesAgree'
  BY <1>1, <1>2, <1>4 DEF TypeOK, NameInv, NamesAgree, IsOpen
<1>6. Ends(c, call[c], "failed")
  BY DEF CodeFails
<1> QED
  BY <1>2, <1>3, <1>4, <1>5, <1>6, NoSeatInv

\* The call that waits for the player's data.
LEMMA DataCall ==
  ASSUME Inv, NEW c \in Calls, WaitsForData(c), UNCHANGED <<codeVars, running>>
  PROVE  /\ call[c] \in Join /\ call[c] # << >> /\ call[c].room \in Rooms
         /\ RoomName(call[c].asks) \in Names
         /\ load'[c] = << >> /\ OtherLoads(c)
         /\ running' \in {0} \cup Code!Versions /\ (running' # 0 => code'[Game] # 0)
<1>1. TypeOK /\ call[c] # << >> /\ call[c].room # NoRoom
  BY InvTypes DEF WaitsForData
<1>2. call[c] \in Join /\ call[c].room \in Rooms /\ load[c] = << >>
  BY <1>1 DEF TypeOK, Join
<1>3. result[call[c].player] # NoRoom
  BY <1>1, InvTypes DEF CallInv
<1>4. RoomName(call[c].asks) \in Names
  BY <1>2, <1>3, JoinRoom
<1> QED
  BY <1>1, <1>2, <1>4 DEF TypeOK, codeVars, OtherLoads

LEMMA DataFailsInv ==
  ASSUME Inv, CodeP!CodeInv', NEW c \in Calls, DataFails(c)
  PROVE  Inv'
<1> DEFINE k == call[c]
<1>1. /\ WaitsForData(c) /\ Ends(c, k, "failed")
      /\ UNCHANGED <<codeVars, running, runs, seats, at, known, torn>>
      /\ UNCHANGED <<appointed, result, joins, tried, slipped>>
      /\ name' = IF k.makes THEN [name EXCEPT ![k.room] = RoomName(k.asks)] ELSE name
  BY DEF DataFails
<1>2. /\ k \in Join /\ k # << >> /\ k.room \in Rooms /\ RoomName(k.asks) \in Names
      /\ load'[c] = << >> /\ OtherLoads(c)
      /\ running' \in {0} \cup Code!Versions /\ (running' # 0 => code'[Game] # 0)
  BY <1>1, DataCall
<1>3. StepFor(c, k)
  BY <1>1, <1>2, CallStep
<1>4. name \in [Rooms -> Names \cup {NoName}] /\ NameInv
  BY InvTypes DEF TypeOK
<1>5. name' \in [Rooms -> Names \cup {NoName}]
  BY <1>1, <1>2, <1>4
<1>6. NamesAgree'
  <2> SUFFICES ASSUME NEW s \in Rooms, s \notin torn', IsOpen(s)', name'[s] # NoName
               PROVE  name'[s] = runs'[s]
    BY DEF NamesAgree
  <2>1. CASE k.makes /\ s = k.room
    <3>1. name'[s] = RoomName(k.asks)
      BY <1>1, <1>2, <1>4, <2>1
    <3>2. runs[s] = RoomName(k.asks)
      BY <1>1, <1>4, <2>1 DEF NameInv
    <3> QED
      BY <1>1, <3>1, <3>2
  <2>2. CASE ~(k.makes /\ s = k.room)
    <3>1. name'[s] = name[s] /\ runs'[s] = runs[s]
      BY <1>1, <1>4, <2>2
    <3> QED
      BY <1>1, <1>4, <3>1 DEF NameInv, NamesAgree, IsOpen
  <2> QED
    BY <2>1, <2>2
<1> QED
  BY <1>1, <1>2, <1>3, <1>5, <1>6, NoSeatInv

LEMMA DataComesInv ==
  ASSUME Inv, CodeP!CodeInv', NEW c \in Calls, DataComes(c)
  PROVE  Inv'
<1> DEFINE k == call[c]
           out == IF k.makes /\ ~IsOpen(k.room) THEN "thrown" ELSE "done"
<1>1. /\ WaitsForData(c) /\ Seated(k) /\ Ends(c, k, out)
      /\ UNCHANGED <<codeVars, running, runs, torn>>
      /\ UNCHANGED <<appointed, result, joins, tried>>
      /\ slipped' = IF k.makes /\ ~IsOpen(k.room) THEN slipped \cup {k.player} ELSE slipped
  BY DEF DataComes
<1>2. /\ k \in Join /\ k # << >> /\ k.room \in Rooms /\ RoomName(k.asks) \in Names
      /\ load'[c] = << >> /\ OtherLoads(c)
      /\ running' \in {0} \cup Code!Versions /\ (running' # 0 => code'[Game] # 0)
  BY <1>1, DataCall
<1>3. StepFor(c, k) /\ (out = "thrown" => k.player \in slipped')
  <2>1. slipped' \in {slipped, slipped \cup {k.player}}
    BY <1>1
  <2>2. StepFor(c, k)
    BY <1>1, <1>2, <2>1, CallStep
  <2> QED
    BY <1>1, <2>2
<1>4. RoomsFor(k)
  <2>1. k.alive => runs[k.room] # NoName
    BY <1>1, InvTypes DEF CallInv, IsOpen
  <2>2. k.makes /\ k.room \notin torn => runs[k.room] = RoomName(k.asks)
    BY <1>1, InvTypes DEF NameInv
  <2>3. runs \in [Rooms -> Names \cup {NoName}]
    BY InvTypes DEF TypeOK
  <2> QED
    BY <1>1, <2>1, <2>2, <2>3 DEF RoomsFor
<1>5. ASSUME k.player \notin slipped'
      PROVE  seats[k.room][k.player] = 0 /\ at[k.player] \in {NoRoom, k.room}
  <2>1. k.player \in Players /\ k.player \notin slipped
    BY <1>1, <1>2, <1>5 DEF Join
  <2>2. SeatOf(k.player)
    BY <2>1, InvTypes DEF PlayerInv
  <2>3. c \in Under(k.player) /\ k.room # NoRoom
    BY <1>1, <1>2 DEF Under, WaitsForData
  <2> QED
    BY <2>2, <2>3 DEF SeatOf
<1> QED
  BY <1>1, <1>2, <1>3, <1>4, <1>5, SeatsInv

\* What leaving does to the joins: those that load into a closing room lose its object.
LEMMA LeavesCalls ==
  ASSUME TypeOK, NEW p \in Players, Leaves(p)
  PROVE  /\ DOMAIN call' = Calls /\ torn \subseteq torn' /\ torn' \subseteq Rooms
         /\ \A c \in Calls : call'[c] # << >> <=> call[c] # << >>
         /\ \A c \in Calls : call[c] # << >> =>
              /\ call'[c] \in Join /\ call'[c].player = call[c].player
              /\ call'[c].asks = call[c].asks /\ call'[c].retry = call[c].retry
              /\ call'[c].count = call[c].count /\ call'[c].room = call[c].room
              /\ call'[c].makes = call[c].makes /\ (call'[c].alive => call[c].alive)
         /\ \A c \in Calls : WaitsForData(c) /\ runs'[call[c].room] # runs[call[c].room] =>
              call'[c].alive = FALSE /\ (call[c].makes => call[c].room \in torn')
<1>1. /\ at[p] \in Rooms /\ DOMAIN call = Calls /\ torn \subseteq Rooms
      /\ runs \in [Rooms -> Names \cup {NoName}]
  BY DEF TypeOK, Leaves
<1>2. CASE UNCHANGED <<runs, call, torn>>
  BY <1>1, <1>2 DEF TypeOK
<1>3. CASE ~UNCHANGED <<runs, call, torn>>
  <2> DEFINE r == at[p]
             loading == {c \in Calls : WaitsForData(c) /\ call[c].room = r}
  <2>1. /\ runs' = [runs EXCEPT ![r] = NoName]
        /\ call' = [c \in Calls |-> IF c \in loading
                                    THEN [call[c] EXCEPT !.alive = FALSE] ELSE call[c]]
        /\ torn' = IF \E c \in loading : call[c].makes THEN torn \cup {r} ELSE torn
    BY <1>3 DEF Leaves
  <2>2. \A j \in Join :
          LET i == [j EXCEPT !.alive = FALSE]
          IN /\ i \in Join /\ i.player = j.player /\ i.asks = j.asks /\ i.retry = j.retry
             /\ i.count = j.count /\ i.room = j.room /\ i.makes = j.makes /\ i.alive = FALSE
    BY DEF Join
  <2>3. \A c \in loading : call[c] \in Join /\ call[c] # << >>
    BY DEF TypeOK, WaitsForData
  <2>4. \A j \in Join : [j EXCEPT !.alive = FALSE] # << >>
    <3> SUFFICES ASSUME NEW j \in Join PROVE [j EXCEPT !.alive = FALSE] # << >>
      OBVIOUS
    <3>1. "player" \in DOMAIN j
      BY DEF Join
    <3>2. "player" \in DOMAIN [j EXCEPT !.alive = FALSE] /\ DOMAIN << >> = {}
      BY <3>1
    <3> QED
      BY <3>2
  <2> HIDE DEF r
  <2>5. torn \subseteq torn' /\ torn' \subseteq Rooms /\ DOMAIN call' = Calls
    BY <1>1, <2>1 DEF r
  <2>6. ASSUME NEW c \in Calls, c \in loading
        PROVE  /\ call'[c] # << >> /\ call[c] # << >>
               /\ call'[c] \in Join /\ call'[c].player = call[c].player
               /\ call'[c].asks = call[c].asks /\ call'[c].retry = call[c].retry
               /\ call'[c].count = call[c].count /\ call'[c].room = call[c].room
               /\ call'[c].makes = call[c].makes /\ call'[c].alive = FALSE
               /\ (call[c].makes => call[c].room \in torn')
    BY <2>1, <2>2, <2>3, <2>4, <2>6
  <2>7. ASSUME NEW c \in Calls, c \notin loading
        PROVE  /\ call'[c] = call[c]
               /\ (WaitsForData(c) => runs'[call[c].room] = runs[call[c].room])
    <3>1. call'[c] = call[c]
      BY <2>1, <2>7
    <3>2. ASSUME WaitsForData(c) PROVE runs'[call[c].room] = runs[call[c].room]
      <4>1. call[c].room \in Rooms /\ call[c].room # r
        BY <2>7, <3>2 DEF WaitsForData, TypeOK, Join
      <4> QED
        BY <1>1, <2>1, <4>1
    <3> QED
      BY <3>1, <3>2
  <2> QED
    BY <2>5, <2>6, <2>7 DEF TypeOK
<1> QED
  BY <1>2, <1>3

LEMMA LeavesInv ==
  ASSUME Inv, CodeP!CodeInv', NEW p \in Players, Leaves(p)
  PROVE  Inv'
<1> DEFINE r == at[p]
<1>1. /\ TypeOK /\ CallInv /\ NameInv /\ PlayerInv /\ Code!TypeOK'
  BY InvTypes, CodeInvTypesNext
<1>2. /\ r \in Rooms /\ IsOpen(r) /\ seats[r][p] > 0
      /\ seats \in [Rooms -> [Players -> Nat]] /\ at \in [Players -> Rooms \cup {NoRoom}]
      /\ runs \in [Rooms -> Names \cup {NoName}]
  BY <1>1 DEF Leaves, TypeOK
<1>3. /\ at' = [at EXCEPT ![p] = NoRoom]
      /\ seats' = [seats EXCEPT ![r] = [seats[r] EXCEPT ![p] = @ - 1]]
      /\ load' = load /\ code' = code /\ running' = running /\ name' = name /\ known' = known
      /\ entry' = entry /\ timer' = timer /\ appointed' = appointed /\ result' = result
      /\ joins' = joins /\ tried' = tried /\ slipped' = slipped
  BY DEF Leaves, codeVars, retryVars
<1>4. \/ runs' = runs
      \/ runs' = [runs EXCEPT ![r] = NoName] /\ seats'[r] = Nobody
  BY <1>2 DEF Leaves
<1>5. /\ DOMAIN call' = Calls /\ torn \subseteq torn' /\ torn' \subseteq Rooms
      /\ \A c \in Calls : call'[c] # << >> <=> call[c] # << >>
      /\ \A c \in Calls : call[c] # << >> =>
           /\ call'[c] \in Join /\ call'[c].player = call[c].player
           /\ call'[c].asks = call[c].asks /\ call'[c].retry = call[c].retry
           /\ call'[c].count = call[c].count /\ call'[c].room = call[c].room
           /\ call'[c].makes = call[c].makes /\ (call'[c].alive => call[c].alive)
      /\ \A c \in Calls : WaitsForData(c) /\ runs'[call[c].room] # runs[call[c].room] =>
           call'[c].alive = FALSE /\ (call[c].makes => call[c].room \in torn')
  BY <1>1, LeavesCalls
<1>6. /\ seats' \in [Rooms -> [Players -> Nat]] /\ at' \in [Players -> Rooms \cup {NoRoom}]
      /\ seats'[r][p] = seats[r][p] - 1 /\ at'[p] = NoRoom
      /\ \A s \in Rooms \ {r} : seats'[s] = seats[s]
      /\ \A q \in Players \ {p} : at'[q] = at[q] /\ \A s \in Rooms : seats'[s][q] = seats[s][q]
  BY <1>2, <1>3
<1>7. /\ runs' \in [Rooms -> Names \cup {NoName}]
      /\ \A s \in Rooms : runs'[s] \in {runs[s], NoName}
      /\ \A s \in Rooms : ~IsOpen(s)' => ~IsOpen(s) \/ (s = r /\ seats'[r] = Nobody)
  BY <1>2, <1>4 DEF IsOpen
<1> HIDE DEF r
<1>8. \A c \in Calls : WaitsForData(c)' <=> WaitsForData(c)
  BY <1>5 DEF WaitsForData
<1>9. TypeOK'
  <2>1. \A s \in Rooms : ~IsOpen(s)' => seats'[s] = Nobody
    <3> SUFFICES ASSUME NEW s \in Rooms, ~IsOpen(s)', ~IsOpen(s) PROVE seats'[s] = Nobody
      BY <1>7
    <3>1. s # r
      BY <1>2
    <3>2. seats[s] = Nobody
      BY <1>1 DEF TypeOK
    <3> QED
      BY <1>6, <3>1, <3>2
  <2>2. /\ \A c \in Calls : call'[c] # << >> => call'[c] \in Join
        /\ \A c \in Calls : load'[c] # << >> <=> call'[c] # << >> /\ call'[c].room = NoRoom
    <3>1. \A c \in Calls : load[c] # << >> <=> call[c] # << >> /\ call[c].room = NoRoom
      BY <1>1 DEF TypeOK
    <3>2. \A c \in Calls : load'[c] = load[c]
      BY <1>3
    <3> QED
      BY <1>5, <3>1, <3>2
  <2>3. /\ Code!TypeOK' /\ running' \in {0} \cup Code!Versions /\ (running' # 0 => code'[Game] # 0)
        /\ appointed' \subseteq Rooms /\ result' \in [Players -> Rooms \cup {NoRoom}]
        /\ name' \in [Rooms -> Names \cup {NoName}] /\ known' \subseteq Players
        /\ slipped' \subseteq Players /\ DOMAIN entry' = Players
        /\ \A q \in Players : entry'[q] # << >> => entry'[q] \in Entry
        /\ timer' \subseteq {q \in Players : entry'[q] # << >>}
        /\ joins' \in [Players -> Nat] /\ tried' \in [Players -> Nat]
    BY <1>1, <1>3 DEF TypeOK, Entry
  <2> QED
    BY <1>5, <1>6, <1>7, <2>1, <2>2, <2>3 DEF TypeOK, Entry
<1>10. CallInv'
  <2>1. /\ \A c \in Calls : load'[c] # << >> => load'[c].game = Game
        /\ \A c \in Calls : call'[c] # << >> => result'[call'[c].player] # NoRoom
        /\ \A q \in Players : entry'[q] # << >> => result'[q] # NoRoom
    BY <1>1, <1>3, <1>5 DEF CallInv
  <2>2. \A c \in Calls : call'[c] # << >> /\ call'[c].retry => entry'[call'[c].player] # << >>
    BY <1>1, <1>3, <1>5 DEF CallInv
  <2>3. ASSUME NEW c \in Calls, WaitsForData(c), call'[c].alive
        PROVE  IsOpen(call[c].room)'
    <3>1. call[c] # << >> /\ call[c].alive /\ call'[c].room = call[c].room
      BY <1>5, <2>3 DEF WaitsForData
    <3>2. runs[call[c].room] # NoName
      BY <1>1, <2>3, <3>1 DEF CallInv, IsOpen
    <3>3. runs'[call[c].room] = runs[call[c].room]
      BY <1>5, <2>3
    <3> QED
      BY <3>1, <3>2, <3>3 DEF IsOpen
  <2> QED
    BY <1>8, <2>1, <2>2, <2>3 DEF CallInv
<1>11. NameInv'
  <2>1. NamesAgree'
    <3> SUFFICES ASSUME NEW s \in Rooms, s \notin torn', IsOpen(s)', name'[s] # NoName
                 PROVE  name'[s] = runs'[s]
      BY DEF NamesAgree
    <3>1. runs'[s] = runs[s] /\ name'[s] = name[s] /\ s \notin torn
      BY <1>3, <1>5, <1>7 DEF IsOpen
    <3> QED
      BY <1>1, <3>1 DEF NameInv, NamesAgree, IsOpen
  <2>2. ASSUME NEW c \in Calls, WaitsForData(c), call'[c].makes, call'[c].room \notin torn'
        PROVE  IsOpen(call[c].room)' /\ runs'[call'[c].room] = RoomName(call'[c].asks)
    <3>1. /\ call[c] # << >> /\ call[c].makes /\ call'[c].room = call[c].room
          /\ call'[c].asks = call[c].asks /\ call[c].room \notin torn
      BY <1>5, <2>2 DEF WaitsForData
    <3>2. runs[call[c].room] # NoName /\ runs[call[c].room] = RoomName(call[c].asks)
      BY <1>1, <2>2, <3>1 DEF NameInv, IsOpen
    <3>3. runs'[call[c].room] = runs[call[c].room]
      BY <1>5, <2>2, <3>1
    <3> QED
      BY <3>1, <3>2, <3>3 DEF IsOpen
  <2> QED
    BY <1>8, <2>1, <2>2 DEF NameInv
<1>12. ASSUME NEW q \in Players, q \notin slipped' PROVE SeatOf(q)' /\ RetryOf(q)'
  <2>1. SeatOf(q) /\ RetryOf(q)
    BY <1>1, <1>3, <1>12 DEF PlayerInv
  <2>2. /\ Under(q)' = Under(q)
        /\ \A c \in Under(q) : /\ call'[c].room = call[c].room /\ call'[c].retry = call[c].retry
                               /\ call'[c].count = call[c].count
    BY <1>5 DEF Under
  <2>3. CASE q # p
    <3>1. Same(q)
      BY <1>3, <1>6, <2>2, <2>3 DEF Same
    <3> QED
      BY <1>1, <2>1, <3>1, SameKeeps
  <2>4. CASE q = p
    <3>1. at[p] = r
      BY DEF r
    <3>2. seats[r][p] = 1 /\ \A s \in Rooms \ {r} : seats[s][p] = 0
      <4>1. \A s \in Rooms : seats[s][p] \in Nat
        BY <1>2
      <4>2. \A s \in Rooms : seats[s][p] <= 1 /\ (seats[s][p] = 1 => s = r)
        BY <2>1, <2>4, <3>1 DEF SeatOf
      <4>3. \A s \in Rooms : seats[s][p] = 0 \/ seats[s][p] = 1
        BY <4>1, <4>2
      <4>4. r \in Rooms /\ seats[r][p] # 0
        BY <1>2
      <4> QED
        BY <4>2, <4>3, <4>4
    <3>3. \A s \in Rooms : seats'[s][p] = 0
      BY <1>6, <3>2
    <3>4. \A c \in Under(p) : call[c].room = NoRoom
      BY <1>2, <2>1, <2>4, <3>1, <3>2, NoNames DEF SeatOf
    <3>5. SeatOf(p)'
      BY <2>1, <2>2, <2>4, <3>3, <3>4 DEF SeatOf
    <3>6. RetryOf(p)'
      BY <1>3, <2>1, <2>2, <2>4 DEF RetryOf
    <3> QED
      BY <2>4, <3>5, <3>6
  <2> QED
    BY <2>3, <2>4
<1> QED
  BY <1>9, <1>10, <1>11, <1>12 DEF Inv, PlayerInv

LEMMA StepInv == Inv /\ [Next]_vars => Inv'
<1> SUFFICES ASSUME Inv, [Next]_vars PROVE Inv'
  OBVIOUS
<1>1. CodeP!CodeInv' /\ TypeOK /\ Code!TypeOK
  BY CodeInvStep, InvTypes DEF Inv
<1>2. ASSUME UNCHANGED <<roomVars, retryVars, appointed, result, call, joins, tried, slipped>>,
             \A d \in Calls : /\ load'[d] # << >> <=> load[d] # << >>
                              /\ load'[d] # << >> => load'[d].game = load[d].game
      PROVE  Inv'
  BY <1>1, <1>2, QuietInv DEF TypeOK
<1>3. ASSUME NEW c \in Calls, CodeAgain(c) PROVE Inv'
  <2>1. load[c] # << >> /\ load'[c] # << >> /\ load'[c].game = load[c].game /\ OtherLoads(c)
    BY <1>1, <1>3, LoadSteps DEF CodeAgain
  <2> QED
    BY <1>2, <1>3, <2>1 DEF CodeAgain, OtherLoads
<1>4. CASE CodeChanges
  <2>1. \A d \in Calls : load'[d] = load[d]
    <3>1. CASE Calls = {}
      BY <3>1
    <3>2. CASE Calls # {}
      BY <1>1, <1>4, <3>2, LoadSteps DEF CodeChanges
    <3> QED
      BY <3>1, <3>2
  <2> QED
    BY <1>2, <1>4, <2>1 DEF CodeChanges
<1>5. CASE UNCHANGED vars
  BY <1>2, <1>5 DEF vars, codeVars
<1>6. ASSUME NEW c \in Calls, DataComes(c) \/ DataFails(c) \/ CodeFails(c) PROVE Inv'
  BY <1>1, <1>6, DataComesInv, DataFailsInv, CodeFailsInv
<1>7. ASSUME NEW c \in Calls, NEW v \in Code!Versions, CodeComes(c, v) PROVE Inv'
  BY <1>1, <1>7, CodeComesInv
<1>8. ASSUME NEW c \in Calls, NEW p \in Players,
             RetryFires(c, p) \/ \E asks \in Asks[p] : Request(c, p, asks)
      PROVE  Inv'
  BY <1>1, <1>8, RetryFiresInv, RequestInv
<1>9. ASSUME NEW p \in Players, Leaves(p) PROVE Inv'
  BY <1>1, <1>9, LeavesInv
<1>10. ASSUME NEW r \in Rooms, Appoint(r) PROVE Inv'
  BY <1>1, <1>10, AppointInv
<1> QED
  BY <1>3, <1>4, <1>5, <1>6, <1>7, <1>8, <1>9, <1>10 DEF Next

LEMMA Invariant == Spec => []Inv
  BY InitInv, StepInv, PTL DEF Spec

-----------------------------------------------------------------------------
(* Theorems.                                                               *)

\* Joins, their retries and the refresh use the map of the games' code as GameCode says
\* it is used: every behaviour of the joins is one of game_code.js.
THEOREM RunsGameCode == Spec => Code!Spec
<1>1. Init => Code!Init
  BY DEF Init
<1>2. [Next]_vars => [Code!Next]_(Code!codeVars)
  BY CodeSteps DEF codeVars, Code!codeVars
<1> QED
  BY <1>1, <1>2, PTL DEF Spec, Code!Spec

\* Every variable keeps its type; who has a retry timer has an entry; a join loads code
\* or waits for data, never both; and a closed room has nobody in it (TypeOK).
THEOREM TypeCorrect == Spec => []TypeOK
<1>1. Inv => TypeOK
  BY InvTypes
<1> QED
  BY <1>1, Invariant, PTL

\* A player whose joins do not overlap has one seat at most, in the room the player's
\* User names, whatever rooms close and whoever leaves meanwhile (SeatIsWhereUserIs).
THEOREM SeatsRight == Spec => []SeatIsWhereUserIs
<1>1. Inv => SeatIsWhereUserIs
  BY InvTypes DEF PlayerInv, SeatOf, SeatIsWhereUserIs
<1> QED
  BY <1>1, Invariant, PTL

\* A player whose joins do not overlap is retried three times at most, however often
\* rooms and code come and go (AtMostThreeRetries).
THEOREM RetriesBounded == Spec => []AtMostThreeRetries
<1>1. ASSUME Inv, NEW p \in Players \ slipped PROVE tried[p] <= 3
  <2>1. RetryOf(p) /\ tried[p] \in Nat
    BY <1>1, InvTypes DEF PlayerInv, TypeOK
  <2>2. p \in timer => entry[p].count <= 2 /\ entry[p].count \in Nat
    <3> SUFFICES ASSUME p \in timer PROVE entry[p].count <= 2 /\ entry[p].count \in Nat
      OBVIOUS
    <3>1. entry[p] \in [asks : Names \cup {Hash}, count : Nat]
      BY <1>1, InvTypes DEF TypeOK
    <3> QED
      BY <2>1, <3>1 DEF RetryOf
  <2>3. CASE \E c \in Under(p) : call[c].retry
    <3>1. p \in timer /\ tried[p] = entry[p].count + 1
      BY <2>1, <2>3 DEF RetryOf
    <3> QED
      BY <2>2, <3>1
  <2>4. CASE \A c \in Under(p) : ~call[c].retry
    <3>1. (p \in timer => tried[p] = entry[p].count) /\ (p \notin timer => tried[p] <= 3)
      BY <2>1, <2>4 DEF RetryOf
    <3> QED
      BY <2>2, <3>1
  <2> QED
    BY <2>3, <2>4
<1>2. Inv => AtMostThreeRetries
  BY <1>1 DEF AtMostThreeRetries
<1> QED
  BY <1>2, Invariant, PTL

\* The name joins are compared with is the one the room runs with, unless the room was
\* closed while the join that had created it was loading (NamesAgree).
THEOREM NamesRight == Spec => []NamesAgree
<1>1. Inv => NamesAgree
  BY InvTypes DEF NameInv
<1> QED
  BY <1>1, Invariant, PTL

\* The code the joins share is never replaced by an older version unless loads of the
\* game overlapped, however joins, retries and the refresh interleave
\* (CodeVersionsGrow).
THEOREM CodeGrows == Spec => CodeVersionsGrow
<1>1. Inv /\ [Next]_vars => [\A g \in Games : code'[g] < code[g] => g \in crossed]_code
  BY CodeInvStep DEF Inv, CodeP!Grows
<1> QED
  BY <1>1, Invariant, PTL DEF Spec, CodeVersionsGrow, Code!VersionsGrow
=============================================================================
