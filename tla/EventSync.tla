------------------------------ MODULE EventSync ------------------------------
(***************************************************************************)
(* What happens in a room of the logic node is repeated by its supervisors:*)
(*                                                                         *)
(*   engine.js, room.js    the events, the loop, closing                   *)
(*   sync_event_pool.js    the pool of events, sent every 5 seconds        *)
(*   supervisor_helper.js  one message per supervisor, all awaited         *)
(*   cap_supervisor.js     onSyncLogicEvent                                *)
(*   engine_supervisor.js  the queue of events and doLoop                  *)
(*                                                                         *)
(* A player's arrival is a message of its own, sent at once.  An event is  *)
(* named by its place in the order in which the events happened.           *)
(***************************************************************************)
EXTENDS Integers, Sequences, SequencesExt

CONSTANTS
  Users,     \* the players matched into the room
  Sups,      \* its supervisors
  MaxEvents, \* bound: events that happen before the room closes
  MaxFrame,  \* bound: rounds of the logic node's loop
  MaxTicks   \* bound: time-outs of the pool that find something to send

ASSUME EventSyncAssumption == MaxEvents \in Nat /\ MaxFrame \in Nat /\ MaxTicks \in Nat

VARIABLES
  \* the logic node
  members,    \* engine._userList
  entered,    \* players that have entered
  frame,      \* engine._frameCount
  running,    \* the room is open and its pool is running
  events,     \* everything that happened, in order
  list,       \* pool._list
  sent,       \* the lists that were sent, in order
  waiting,    \* <<list, supervisor>>: _onSyncTimeout awaits this answer
  unsafe,     \* events that came while _onSyncTimeout awaited or the pool was stopped
  overlapped, \* was a list sent while an earlier one was on its way?
  \* the network
  wire,       \* <<list, supervisor>> on their way
  enters,     \* <<player, supervisor>>: sys_enter on their way
  \* the supervisors
  sup

logicVars == <<members, entered, frame, running, events, list, sent, waiting, unsafe,
               overlapped>>
vars      == <<logicVars, wire, enters, sup>>

Sent == UNION {ToSet(sent[c]) : c \in DOMAIN sent}

Init ==
  /\ members = << >> /\ entered = {} /\ frame = 0 /\ running = TRUE
  /\ events = << >> /\ list = << >> /\ sent = << >>
  /\ waiting = {} /\ unsafe = {} /\ overlapped = FALSE
  /\ wire = {} /\ enters = {}
  /\ sup = [s \in Sups |->
       [room    |-> 0,                         \* the Room object, 0: none
        made    |-> 0,                         \* Room objects created so far
        users   |-> [u \in Users |-> "none"],  \* "init": data not loaded; "in"
        loading |-> [u \in Users |-> 0],       \* the Room object a load is for
        members |-> << >>,
        queue   |-> << >>,                     \* _eventList
        blocked |-> FALSE,                     \* did doLoop return early?
        frame   |-> 0,
        done    |-> << >>]]                    \* events executed, with their frame

-----------------------------------------------------------------------------
(* The logic node.                                                         *)

Event(type, user) == [frame |-> frame, type |-> type, user |-> user]

\* syncEventToSup for each of new: the list it leaves in the pool.
Longer(new) == list \o [i \in DOMAIN new |-> Len(events) + i]

\* The events of new happen, the last of them when the pool is stopped already.
Happen(new, stopped) ==
  LET from == IF waiting = {} THEN Len(new) - Len(stopped) ELSE 0
  IN /\ Len(events) + Len(new) <= MaxEvents
     /\ events' = events \o new
     /\ unsafe' = unsafe \cup (Len(events) + from + 1)..(Len(events) + Len(new))

\* SupervisorHelper._doSyncEvent: the list as it is now goes to every supervisor.
Send(l) ==
  /\ sent' = Append(sent, l)
  /\ wire' = wire \cup ({Len(sent) + 1} \X Sups)
  /\ overlapped' = (overlapped \/ wire # {} \/ waiting # {})

EnterRoom(u) ==
  /\ running /\ u \notin entered
  /\ members' = Append(members, u)
  /\ entered' = entered \cup {u}
  /\ enters' = enters \cup ({u} \X Sups)
  /\ UNCHANGED <<frame, running, events, list, sent, waiting, unsafe, overlapped, wire,
                 sup>>

ClientMsg(u) ==
  LET new == <<Event("on_client_msg", u)>>
  IN /\ running /\ u \in ToSet(members)
     /\ Happen(new, << >>) /\ list' = Longer(new)
     /\ UNCHANGED <<members, entered, frame, running, sent, waiting, overlapped,
                    wire, enters, sup>>

\* What a round of the loop adds, with and without the game's update running.
UpdateEvents(updates) == IF updates THEN <<Event("onSupUpdate", "all")>> ELSE << >>

\* One round of the loop, which starts when the room is created, before anyone is in it.
\* Nothing ends the loop of a room that was closed: its events go into the stopped pool.
Loop(updates) ==
  LET new == UpdateEvents(updates)
  IN /\ frame < MaxFrame
     /\ frame' = frame + 1
     /\ Happen(new, IF running THEN << >> ELSE new) /\ list' = Longer(new)
     /\ UNCHANGED <<members, entered, running, sent, waiting, overlapped, wire, enters,
                    sup>>

\* SendsRest when the pool just stops.
NothingIsLeft(l) == UNCHANGED <<sent, wire, overlapped>>

\* SyncEventPool.stop: what is in the pool is sent, and not awaited.
SendsRest(l) == Send(l)

\* The room closes, after the events of before, and then come those of after.
Closes(before, after) ==
  LET sending == Append(before, Event("engine_close", "all"))
  IN /\ Happen(sending \o after, after)
     /\ list' = Longer(sending \o after)
     /\ SendsRest(Longer(sending))
     /\ running' = FALSE /\ members' = << >>

LeaveRoom(u) ==
  LET new == <<Event("leave_room", u)>>
  IN /\ running /\ u \in ToSet(members)
     /\ IF Len(members) = 1 THEN Closes(new, << >>)
        ELSE /\ Happen(new, << >>) /\ list' = Longer(new)
             /\ members' = RemoveFirst(members, u)
             /\ UNCHANGED <<running, sent, overlapped, wire>>
     /\ UNCHANGED <<entered, frame, waiting, enters, sup>>

\* closeRoom logs players out of a list that shrinks under its loop: every second
\* one is left out.
LoggedOut(l) == [i \in 1..((Len(l) + 1) \div 2) |-> l[2 * i - 1]]

Leaving(l) == [i \in DOMAIN LoggedOut(l) |-> Event("leave_room", LoggedOut(l)[i])]

\* With one player, logging the player out is leaving as the last one: it closes the
\* room inside the closing, which then goes on and closes the room a second time.
SecondClose == IF Len(members) = 1 THEN <<Event("engine_close", "all")>> ELSE << >>

\* The game's code closes the room when it starts, which is no event.
StartCloses ==
  /\ running /\ members # << >>
  /\ Closes(Leaving(members), SecondClose)
  /\ UNCHANGED <<entered, frame, waiting, enters, sup>>

\* ... or upon a message: onClientMsg adds the message after onuserevent.
ClientMsgCloses(u) ==
  /\ running /\ u \in ToSet(members)
  /\ Closes(Leaving(members), Append(SecondClose, Event("on_client_msg", u)))
  /\ UNCHANGED <<entered, frame, waiting, enters, sup>>

\* ... or in its update.
UpdateCloses ==
  /\ running /\ members # << >> /\ frame < MaxFrame
  /\ frame' = frame + 1
  /\ Closes(<<Event("onSupUpdate", "all")>> \o Leaving(members), SecondClose)
  /\ UNCHANGED <<entered, waiting, enters, sup>>

\* _onSyncTimeout up to its await, every 5 seconds whether or not an earlier one
\* is still awaiting.
Tick ==
  /\ running /\ list # << >> /\ Len(sent) < MaxTicks
  /\ Send(list)
  /\ waiting' = waiting \cup ({Len(sent) + 1} \X Sups)
  /\ UNCHANGED <<members, entered, frame, running, events, list, unsafe, enters, sup>>

\* _onSyncTimeout after its await: what was added in between goes too.
Emptied(c) == << >>

\* An answer comes, or the connection breaks; after the last one the await is over.
Settle(c, s) ==
  /\ <<c, s>> \in waiting
  /\ waiting' = waiting \ {<<c, s>>}
  /\ list' = IF \E t \in Sups \ {s} : <<c, t>> \in waiting THEN list ELSE Emptied(c)
  /\ UNCHANGED <<members, entered, frame, running, events, sent, unsafe, overlapped,
                 wire, enters, sup>>

-----------------------------------------------------------------------------
(* A supervisor.  st is its state.                                         *)

\* Room.closeRoom.
SupCloses(st) ==
  IF st.room = 0 THEN st
  ELSE [st EXCEPT !.room = 0, !.members = << >>,
          !.users = [u \in Users |->
                       IF u \in ToSet(LoggedOut(st.members)) THEN "none" ELSE @[u]]]

\* RoomMgr.leaveRoom.
SupLeaves(st, u) ==
  LET out == [st EXCEPT !.members = RemoveFirst(@, u)]
  IN IF st.room = 0 \/ u \notin ToSet(st.members) THEN st
     ELSE IF out.members = << >> THEN SupCloses(out) ELSE out

\* WaitsFor when the event goes back to the end of the queue.
RetriesLast(st, e) == [st EXCEPT !.queue = Append(@, e), !.blocked = TRUE]

\* The player's data is not loaded: the event goes back to the head of the queue.
WaitsFor(st, e) == [st EXCEPT !.queue = <<e>> \o @, !.blocked = TRUE]

\* CatchUp that goes one too far.
OneTooFar(f, g) == IF f <= g THEN g + 1 ELSE f

\* The supervisor's frame count f catches up with the event's, g.
CatchUp(f, g) == IF f < g THEN g ELSE f

\* One turn of doLoop.  blocked: the loop has returned.
Turn(st) ==
  LET e    == Head(st.queue)
      ev   == events[e]
      at   == CatchUp(st.frame, ev.frame)
      next == [st EXCEPT !.queue = Tail(@), !.frame = at]
      done == [next EXCEPT !.done = Append(@, [event |-> e, frame |-> at])]
  IN CASE ev.type = "engine_close" -> SupCloses(done)
       [] ev.type = "leave_room"   -> SupLeaves(done, ev.user)
       [] ev.type = "onSupUpdate"  -> done
       [] ev.type = "on_client_msg" ->
            CASE st.users[ev.user] = "none" -> [next EXCEPT !.blocked = TRUE]
              [] st.users[ev.user] = "in"   -> done
              [] st.users[ev.user] = "init" -> WaitsFor(next, e)

DoLoop(st) ==
  LET turn[i \in 0..Len(st.queue)] ==
        IF i = 0 THEN [st EXCEPT !.blocked = FALSE]
        ELSE IF turn[i - 1].blocked \/ turn[i - 1].queue = << >> THEN turn[i - 1]
        ELSE Turn(turn[i - 1])
  IN turn[Len(st.queue)]

\* addSyncEvent.
Receive(st, e) == DoLoop([st EXCEPT !.queue = Append(@, e)])

\* The events of a list are received one by one.
ReceiveAll(st, l) ==
  LET got[i \in 0..Len(l)] == IF i = 0 THEN st ELSE Receive(got[i - 1], l[i])
  IN got[Len(l)]

\* onSyncLogicEvent of a list: without a room the whole list is dropped.
Deliver(c, s) ==
  /\ <<c, s>> \in wire
  /\ wire' = wire \ {<<c, s>>}
  /\ sup' = [sup EXCEPT ![s] = IF @.room = 0 THEN @ ELSE ReceiveAll(@, sent[c])]
  /\ UNCHANGED <<logicVars, enters>>

\* A list does not get through: nobody sends it again on purpose.
Lose(c, s) ==
  /\ <<c, s>> \in wire
  /\ wire' = wire \ {<<c, s>>}
  /\ UNCHANGED <<logicVars, enters, sup>>

\* onSyncRoomJoin up to the await on the player's data: the first player to come
\* creates the room, also when there has been one before.
Arrives(st, u) ==
  LET in == IF st.room # 0 THEN st
            ELSE [st EXCEPT !.made = @ + 1, !.room = st.made + 1, !.members = << >>,
                            !.queue = << >>, !.frame = 0]
  IN [in EXCEPT !.users[u] = "init", !.loading[u] = in.room]

EnterArrives(u, s) ==
  /\ <<u, s>> \in enters
  /\ enters' = enters \ {<<u, s>>}
  /\ sup' = [sup EXCEPT ![s] = Arrives(@, u)]
  /\ UNCHANGED <<logicVars, wire>>

\* The message, or the game's code, does not get through.
EnterLost(u, s) ==
  /\ <<u, s>> \in enters
  /\ enters' = enters \ {<<u, s>>}
  /\ UNCHANGED <<logicVars, wire, sup>>

\* onSyncRoomJoin after the await: nothing runs the queue again.
Loaded(u, s) ==
  LET st == sup[s]
  IN /\ st.loading[u] # 0
     /\ sup' = [sup EXCEPT
          ![s].loading[u] = 0, ![s].users[u] = "in",
          ![s].members = IF st.loading[u] = st.room THEN Append(@, u) ELSE @]
     /\ UNCHANGED <<logicVars, wire, enters>>

LoadFails(u, s) ==
  /\ sup[s].loading[u] # 0
  /\ sup' = [sup EXCEPT ![s].loading[u] = 0]
  /\ UNCHANGED <<logicVars, wire, enters>>

-----------------------------------------------------------------------------
Next ==
  \/ \E u \in Users : EnterRoom(u) \/ ClientMsg(u) \/ LeaveRoom(u)
  \/ \E updates \in BOOLEAN : Loop(updates)
  \/ \E u \in Users : ClientMsgCloses(u)
  \/ StartCloses \/ UpdateCloses \/ Tick
  \/ \E c \in DOMAIN sent, s \in Sups : Settle(c, s) \/ Deliver(c, s) \/ Lose(c, s)
  \/ \E u \in Users, s \in Sups :
       EnterArrives(u, s) \/ EnterLost(u, s) \/ Loaded(u, s) \/ LoadFails(u, s)

Spec == Init /\ [][Next]_vars

\* A message gets through or is lost, a call is answered or breaks, a load ends.
Fairness ==
  /\ \A c \in 1..(MaxTicks + 1), s \in Sups :
       /\ WF_vars(c \in DOMAIN sent /\ Settle(c, s))
       /\ WF_vars(c \in DOMAIN sent /\ (Deliver(c, s) \/ Lose(c, s)))
  /\ \A u \in Users, s \in Sups :
       /\ WF_vars(EnterArrives(u, s) \/ EnterLost(u, s))
       /\ WF_vars(Loaded(u, s) \/ LoadFails(u, s))

FairSpec == Spec /\ Fairness

-----------------------------------------------------------------------------
(* Properties.                                                             *)

\* Every variable keeps its type; a supervisor's frame count is never ahead of the
\* logic node's.
TypeOK ==
  /\ entered \subseteq Users /\ ToSet(members) \subseteq entered
  /\ frame \in 0..MaxFrame /\ running \in BOOLEAN /\ overlapped \in BOOLEAN
  /\ \A i \in DOMAIN events :
       /\ events[i].frame \in 0..frame
       /\ events[i].type \in {"on_client_msg", "onSupUpdate", "leave_room",
           "engine_close"}
       /\ events[i].user \in Users \cup {"all"}
  /\ ToSet(list) \subseteq DOMAIN events /\ Sent \subseteq DOMAIN events
  /\ unsafe \subseteq DOMAIN events
  /\ waiting \cup wire \subseteq (DOMAIN sent) \X Sups
  /\ enters \subseteq entered \X Sups
  /\ \A s \in Sups :
       /\ sup[s].room \in 0..sup[s].made
       /\ sup[s].users \in [Users -> {"none", "init", "in"}]
       /\ sup[s].loading \in [Users -> 0..sup[s].made]
       /\ ToSet(sup[s].members) \subseteq entered
       /\ ToSet(sup[s].queue) \subseteq Sent
       /\ sup[s].frame \in 0..frame

\* As long as no list is sent while an earlier one is on its way, a supervisor
\* executes events in the order in which they happened, none of them twice, each at
\* the frame count it had on the logic node: whatever is lost, dropped or waits for
\* a player's data in between.
ExecutedInStep ==
  ~overlapped => \A s \in Sups :
    LET done == sup[s].done
    IN /\ \A i, j \in DOMAIN done : i < j => done[i].event < done[j].event
       /\ \A i \in DOMAIN done : done[i].frame = events[done[i].event].frame

\* An event that is neither in the pool nor was ever sent happened while a sync was
\* awaited, or once the pool was stopped: the message upon which the game's code
\* closed the room, the event of a second closing inside the first, and the updates
\* of a loop nobody ends.  Every other event of a
\* closed room was sent.
OnlyUnsafeAreLost ==
  \A e \in DOMAIN events :
    e \in Sent \/ e \in unsafe \/ (running /\ e \in ToSet(list))

Runnable(s) ==
  /\ sup[s].queue # << >>
  /\ LET ev == events[Head(sup[s].queue)]
     IN ev.type = "on_client_msg" /\ sup[s].users[ev.user] = "in"

\* engine_supervisor.js:53: an event that waits for a player's data is tried again
\* when the data is there.
RetriedLater == \A s \in Sups : Runnable(s) ~> ~Runnable(s)
=============================================================================
