--------------------------- MODULE EventSyncProofs ---------------------------
(***************************************************************************)
(* Theorems about EventSync: which events a room loses, and that its       *)
(* supervisors execute the others in order and at their frame.             *)
(***************************************************************************)
EXTENDS EventSync, Iteration, SequenceTheorems

Types  == {"on_client_msg", "onSupUpdate", "leave_room", "engine_close"}
Happening == [frame : Nat, type : Types, user : Users \cup {"all"}]

\* The types of the logic node's variables.
LogicOK ==
  /\ entered \subseteq Users /\ members \in Seq(entered)
  /\ frame \in 0..MaxFrame /\ running \in BOOLEAN /\ overlapped \in BOOLEAN
  /\ events \in Seq(Happening)
  /\ \A i \in DOMAIN events :
       /\ events[i].frame <= frame
       /\ events[i].type \in {"on_client_msg", "leave_room"} => events[i].user \in Users
  /\ list \in Seq(Nat) /\ ToSet(list) \subseteq DOMAIN events
  /\ sent \in Seq(Seq(Nat)) /\ Sent \subseteq DOMAIN events
  /\ unsafe \subseteq DOMAIN events

\* The types of what is on its way.
WireOK ==
  /\ waiting \subseteq (DOMAIN sent) \X Sups /\ wire \subseteq (DOMAIN sent) \X Sups
  /\ enters \subseteq entered \X Sups

SupState ==
  [room : Nat, made : Nat, users : [Users -> {"none", "init", "in"}],
   loading : [Users -> Nat], members : Seq(entered), queue : Seq(Nat),
   blocked : BOOLEAN, frame : Nat, done : Seq([event : Nat, frame : Nat])]

Done(st) == {st.done[i].event : i \in DOMAIN st.done}

\* What a supervisor's state always satisfies.
SupOK(st) ==
  /\ st \in SupState
  /\ st.room <= st.made
  /\ \A u \in Users : st.loading[u] <= st.made /\ (st.loading[u] # 0 => u \in entered)
  /\ ToSet(st.queue) \subseteq Sent /\ Done(st) \subseteq Sent
  /\ st.frame = 0 \/ \E x \in Sent : st.frame = events[x].frame

SupsOK == /\ sup = [s \in Sups |-> sup[s]]
          /\ \A s \in Sups : SupOK(sup[s])

\* What is in the pool while a sync is awaited was sent or is unsafe: it will be thrown
\* away.
PoolInv == waiting # {} => ToSet(list) \subseteq Sent \cup unsafe

Increasing(l) == \A i, j \in DOMAIN l : i < j => l[i] < l[j]
Below(S, T) == \A x \in S, y \in T : x < y

\* Events are named in the order in which they happened, and lists keep it.
OrderInv ==
  /\ \A i, j \in DOMAIN events : i <= j => events[i].frame <= events[j].frame
  /\ Increasing(list) /\ \A c \in DOMAIN sent : Increasing(sent[c])

\* As long as no lists overlap, only the last one is on its way, and what waits in the
\* pool happened after everything that was sent.
OneListInv ==
  ~overlapped =>
    /\ waiting \cup wire \subseteq {Len(sent)} \X Sups
    /\ running /\ waiting = {} /\ Sups # {} => Below(Sent, ToSet(list))

\* A supervisor that is in step, when the events of H are still to come: it has executed
\* events in order, each at its frame; then come those of its queue, then H.
InStep(st, H) ==
  /\ \A i, j \in DOMAIN st.done : i < j => st.done[i].event < st.done[j].event
  /\ \A i \in DOMAIN st.done : st.done[i].frame = events[st.done[i].event].frame
  /\ Increasing(st.queue)
  /\ Below(Done(st), ToSet(st.queue)) /\ Below(Done(st) \cup ToSet(st.queue), H)
  /\ \A e \in ToSet(st.queue) \cup H : st.frame <= events[e].frame

Coming(s) == UNION {ToSet(sent[c]) : c \in {d \in DOMAIN sent : <<d, s>> \in wire}}

StepInv == ~overlapped => \A s \in Sups : InStep(sup[s], Coming(s))

IInv == LogicOK /\ WireOK /\ SupsOK /\ PoolInv /\ OrderInv /\ OneListInv /\ StepInv
        /\ OnlyUnsafeAreLost

-----------------------------------------------------------------------------
(* Lists of events go up.                                                  *)

LEMMA IncreasingAppend ==
  ASSUME NEW l \in Seq(Nat), NEW x \in Nat, Increasing(l), Below(ToSet(l), {x})
  PROVE  Increasing(Append(l, x))
<1> DEFINE a == Append(l, x)
<1>1. /\ a \in Seq(Nat) /\ Len(a) = Len(l) + 1 /\ a[Len(l) + 1] = x
      /\ \A i \in 1..Len(l) : a[i] = l[i]
  OBVIOUS
<1>2. Len(l) \in Nat /\ DOMAIN l = 1..Len(l)
  OBVIOUS
<1> HIDE DEF a
<1>3. DOMAIN a = 1..Len(a)
  BY <1>1
<1>4. ASSUME NEW i \in DOMAIN a, NEW j \in DOMAIN a, i < j
      PROVE  a[i] < a[j]
  <2>1. i \in 1..Len(l) /\ a[i] = l[i] /\ l[i] \in ToSet(l)
    BY <1>1, <1>2, <1>3, <1>4, InToSet
  <2>2. CASE j \in 1..Len(l)
    BY <1>1, <1>2, <1>4, <2>1, <2>2 DEF Increasing
  <2>3. CASE j = Len(l) + 1
    BY <1>1, <2>1, <2>3 DEF Below
  <2>4. QED
    BY <1>1, <1>2, <1>3, <2>2, <2>3
<1>5. QED
  BY <1>4 DEF a, Increasing

LEMMA IncreasingConcat ==
  ASSUME NEW l \in Seq(Nat), NEW m \in Seq(Nat),
         Increasing(l), Increasing(m), Below(ToSet(l), ToSet(m))
  PROVE  Increasing(l \o m)
<1> DEFINE a == l \o m
<1>1. /\ a \in Seq(Nat) /\ Len(a) = Len(l) + Len(m)
      /\ \A i \in 1..(Len(l) + Len(m)) : a[i] = IF i <= Len(l) THEN l[i] ELSE m[i - Len(l)]
  BY ConcatProperties
<1>2. Len(l) \in Nat /\ Len(m) \in Nat /\ DOMAIN l = 1..Len(l) /\ DOMAIN m = 1..Len(m)
  OBVIOUS
<1> HIDE DEF a
<1>3. DOMAIN a = 1..Len(a)
  BY <1>1
<1>4. ASSUME NEW i \in DOMAIN a, NEW j \in DOMAIN a, i < j
      PROVE  a[i] < a[j]
  <2>1. i \in Nat /\ j \in Nat /\ i \in 1..(Len(l) + Len(m)) /\ j \in 1..(Len(l) + Len(m))
    BY <1>1, <1>2, <1>3
  <2>2. CASE j <= Len(l)
    <3>1. i \in DOMAIN l /\ j \in DOMAIN l /\ i <= Len(l)
      BY <1>2, <1>4, <2>1, <2>2
    <3>2. QED
      BY <1>1, <1>4, <2>1, <2>2, <3>1 DEF Increasing
  <2>3. CASE i <= Len(l) /\ j > Len(l)
    <3>1. i \in 1..Len(l) /\ j - Len(l) \in 1..Len(m) /\ ~(j <= Len(l))
      BY <1>2, <2>1, <2>3
    <3>2. l[i] \in ToSet(l) /\ m[j - Len(l)] \in ToSet(m)
      BY <3>1, InToSet
    <3>3. QED
      BY <1>1, <2>1, <2>3, <3>1, <3>2 DEF Below
  <2>4. CASE i > Len(l)
    <3>1. /\ i - Len(l) \in DOMAIN m /\ j - Len(l) \in DOMAIN m
          /\ ~(i <= Len(l)) /\ ~(j <= Len(l)) /\ i - Len(l) < j - Len(l)
      BY <1>2, <1>4, <2>1, <2>4
    <3>2. QED
      BY <1>1, <2>1, <3>1 DEF Increasing
  <2>5. QED
    BY <1>2, <1>4, <2>1, <2>2, <2>3, <2>4
<1>5. QED
  BY <1>4 DEF a, Increasing

LEMMA IncreasingTail ==
  ASSUME NEW l \in Seq(Nat), l # << >>, Increasing(l)
  PROVE  /\ Increasing(Tail(l)) /\ Below({Head(l)}, ToSet(Tail(l)))
<1> DEFINE t == Tail(l)
<1>1. Len(l) \in Nat \ {0} /\ DOMAIN l = 1..Len(l) /\ Head(l) = l[1]
  BY EmptySeq
<1>2. t \in Seq(Nat)
  OBVIOUS
<1>3. Len(t) = Len(l) - 1 /\ \A i \in 1..Len(t) : t[i] = l[i + 1]
  BY HeadTailProperties
<1> HIDE DEF t
<1>4. ASSUME NEW i \in 1..Len(t) PROVE i + 1 \in DOMAIN l /\ 1 \in DOMAIN l /\ t[i] = l[i + 1]
  BY <1>1, <1>3
<1>5. Increasing(t)
  <2>1. ASSUME NEW i \in DOMAIN t, NEW j \in DOMAIN t, i < j
        PROVE  t[i] < t[j]
    <3>1. DOMAIN t = 1..Len(t)
      BY <1>2
    <3>2. i \in Nat /\ j \in Nat /\ i + 1 < j + 1
      BY <2>1, <3>1
    <3>3. i + 1 \in DOMAIN l /\ j + 1 \in DOMAIN l /\ t[i] = l[i + 1] /\ t[j] = l[j + 1]
      BY <1>4, <3>1
    <3>4. QED
      BY <3>2, <3>3 DEF Increasing
  <2>2. QED
    BY <2>1 DEF Increasing
<1>6. ASSUME NEW x \in ToSet(t) PROVE Head(l) < x
  <2>1. PICK i \in 1..Len(t) : x = t[i]
    BY <1>2, InToSet, Zenon
  <2>2. i + 1 \in DOMAIN l /\ 1 \in DOMAIN l /\ t[i] = l[i + 1] /\ 1 < i + 1
    BY <1>4
  <2>3. l[1] < l[i + 1]
    BY <2>2 DEF Increasing
  <2>4. QED
    BY <1>1, <2>1, <2>2, <2>3
<1>7. QED
  BY <1>5, <1>6 DEF t, Below

LEMMA LoggedOutOf ==
  ASSUME NEW S, NEW l \in Seq(S)
  PROVE  LoggedOut(l) \in Seq(S) /\ ToSet(LoggedOut(l)) \subseteq ToSet(l)
<1> DEFINE n == (Len(l) + 1) \div 2
           o == [i \in 1..n |-> l[2 * i - 1]]
<1>1. n \in Nat /\ \A i \in 1..n : 2 * i - 1 \in 1..Len(l)
  OBVIOUS
<1>2. \A i \in 1..n : l[2 * i - 1] \in ToSet(l)
  BY <1>1, InToSet
<1> HIDE DEF n
<1>3. o \in Seq(ToSet(l))
  BY <1>1, <1>2
<1>4. ToSet(l) \subseteq S
  BY InToSet
<1> HIDE DEF o
<1>5. o \in Seq(S) /\ ToSet(o) \subseteq ToSet(l)
  BY <1>3, <1>4, InToSet, SeqMonotonic
<1>6. QED
  BY <1>5 DEF o, n, LoggedOut

-----------------------------------------------------------------------------
(* One turn of a supervisor's loop.                                        *)

LEMMA SentEvent ==
  ASSUME LogicOK, NEW e \in Sent
  PROVE  /\ e \in DOMAIN events /\ e \in Nat
         /\ events[e].frame \in Nat /\ events[e].frame <= frame /\ events[e].type \in Types
         /\ events[e].type \in {"on_client_msg", "leave_room"} => events[e].user \in Users
<1>1. e \in DOMAIN events
  BY DEF LogicOK
<1>2. DOMAIN events = 1..Len(events) /\ events[e] \in Happening
  BY <1>1, ElementOfSeq DEF LogicOK
<1>3. e \in Nat
  BY <1>1, <1>2
<1>4. QED
  BY <1>1, <1>2, <1>3 DEF LogicOK, Happening

LEMMA SupClosesKeeps ==
  ASSUME NEW st, SupOK(st)
  PROVE  /\ SupOK(SupCloses(st))
         /\ SupCloses(st).queue = st.queue /\ SupCloses(st).done = st.done
         /\ SupCloses(st).frame = st.frame
<1>1. CASE st.room = 0
  BY <1>1 DEF SupCloses
<1>2. CASE st.room # 0
  <2> DEFINE us == [u \in Users |-> IF u \in ToSet(LoggedOut(st.members)) THEN "none"
                                    ELSE st.users[u]]
             out == [st EXCEPT !.room = 0, !.members = << >>, !.users = us]
  <2>1. SupCloses(st) = out
    BY <1>2 DEF SupCloses, SupOK, SupState
  <2>2. us \in [Users -> {"none", "init", "in"}]
    BY DEF SupOK, SupState
  <2> HIDE DEF us
  <2>3. /\ out \in SupState /\ out.queue = st.queue /\ out.done = st.done
        /\ out.frame = st.frame /\ out.room = 0 /\ out.made = st.made
        /\ out.loading = st.loading
    <3>1. st \in SupState
      BY DEF SupOK
    <3> DEFINE none == << >>
    <3>2. none \in Seq(entered)
      BY EmptySeq
    <3> HIDE DEF none
    <3>3. [st EXCEPT !.room = 0, !.members = none, !.users = us] \in SupState
      BY <2>2, <3>1, <3>2 DEF SupState
    <3>4. QED
      BY <3>1, <3>3 DEF SupState, none
  <2>4. st.made \in Nat
    BY DEF SupOK, SupState
  <2> HIDE DEF out
  <2>5. SupOK(out)
    BY <2>3, <2>4 DEF SupOK, Done
  <2>6. QED
    BY <2>1, <2>3, <2>5
<1>3. QED
  BY <1>1, <1>2

LEMMA SupLeavesKeeps ==
  ASSUME NEW st, SupOK(st), NEW u
  PROVE  /\ SupOK(SupLeaves(st, u))
         /\ SupLeaves(st, u).queue = st.queue /\ SupLeaves(st, u).done = st.done
         /\ SupLeaves(st, u).frame = st.frame
<1> DEFINE m == RemoveFirst(st.members, u)
           out == [st EXCEPT !.members = m]
<1>1. st.members \in Seq(entered)
  BY DEF SupOK, SupState
<1>2. m \in Seq(entered)
  BY <1>1, RemoveFirstKeeps
<1> HIDE DEF m
<1>3. /\ out \in SupState /\ out.queue = st.queue /\ out.done = st.done
      /\ out.frame = st.frame /\ out.room = st.room /\ out.made = st.made
      /\ out.loading = st.loading
  BY <1>2 DEF SupOK, SupState
<1>4. SupLeaves(st, u) \in {st, SupCloses(out), out}
  <2>1. out = [st EXCEPT !.members = RemoveFirst(@, u)]
    BY DEF m, SupOK, SupState
  <2> HIDE DEF out
  <2>2. QED
    BY <2>1 DEF SupLeaves
<1> HIDE DEF out
<1>5. SupOK(out)
  BY <1>3 DEF SupOK, Done
<1>6. QED
  BY <1>3, <1>4, <1>5, SupClosesKeeps

LEMMA DoneAppend ==
  ASSUME NEW d \in Seq([event : Nat, frame : Nat]), NEW r \in [event : Nat, frame : Nat]
  PROVE  {Append(d, r)[i].event : i \in DOMAIN Append(d, r)}
           = {d[i].event : i \in DOMAIN d} \cup {r.event}
<1> DEFINE a == Append(d, r)
<1>1. /\ a \in Seq([event : Nat, frame : Nat]) /\ Len(a) = Len(d) + 1
      /\ \A i \in 1..Len(d) : a[i] = d[i]
      /\ a[Len(d) + 1] = r
  OBVIOUS
<1> HIDE DEF a
<1>2. DOMAIN a = 1..(Len(d) + 1) /\ DOMAIN d = 1..Len(d) /\ Len(d) \in Nat
  BY <1>1
<1>3. DOMAIN a = DOMAIN d \cup {Len(d) + 1}
  <2>1. 1..(Len(d) + 1) = 1..Len(d) \cup {Len(d) + 1}
    BY <1>2
  <2>2. QED
    BY <1>2, <2>1
<1>4. QED
  BY <1>1, <1>2, <1>3 DEF a

\* The event a turn executed, as the supervisor notes it.
Noted(st) == [event |-> Head(st.queue), frame |-> CatchUp(st.frame, events[Head(st.queue)].frame)]

\* A turn executes the first event of the queue, or drops it, or puts it back.
LEMMA TurnCases ==
  ASSUME LogicOK, NEW st, SupOK(st), st.queue # << >>
  PROVE  /\ Head(st.queue) \in Sent
         /\ SupOK(Turn(st))
         /\ Turn(st).frame = Noted(st).frame
         /\ \/ Turn(st).queue = Tail(st.queue) /\ Turn(st).done = st.done
            \/ Turn(st).queue = Tail(st.queue) /\ Turn(st).done = Append(st.done, Noted(st))
            \/ Turn(st).queue = st.queue /\ Turn(st).done = st.done
<1> DEFINE e == Head(st.queue)
           ev == events[e]
           at == CatchUp(st.frame, ev.frame)
           q == Tail(st.queue)
           d == Append(st.done, [event |-> e, frame |-> at])
           next == [st EXCEPT !.queue = q, !.frame = at]
           done == [next EXCEPT !.done = d]
           drop == [next EXCEPT !.blocked = TRUE]
           back == [next EXCEPT !.queue = <<e>> \o q, !.blocked = TRUE]
<1>1. st \in SupState /\ st.queue \in Seq(Nat) /\ st.frame \in Nat
      /\ st.done \in Seq([event : Nat, frame : Nat])
  BY DEF SupOK, SupState
<1>2. /\ e \in ToSet(st.queue) /\ ToSet(q) \subseteq ToSet(st.queue)
      /\ <<e>> \o q = st.queue /\ q \in Seq(Nat)
  BY <1>1, HeadAndTail
<1>3. e \in Sent
  BY <1>2 DEF SupOK
<1>4. /\ e \in Nat /\ ev.frame \in Nat /\ ev.type \in Types
      /\ ev.type = "on_client_msg" => ev.user \in Users
  BY <1>3, SentEvent
<1>5. at \in Nat /\ (at = st.frame \/ at = ev.frame)
  BY <1>1, <1>4 DEF CatchUp
<1>6. at = 0 \/ \E x \in Sent : at = events[x].frame
  BY <1>3, <1>5 DEF SupOK
<1>7. d \in Seq([event : Nat, frame : Nat])
  BY <1>1, <1>4, <1>5
<1>8. {d[i].event : i \in DOMAIN d} = Done(st) \cup {e}
  <2> DEFINE r == [event |-> e, frame |-> at]
  <2>1. r \in [event : Nat, frame : Nat] /\ r.event = e
    BY <1>4, <1>5
  <2> HIDE DEF r
  <2>2. {Append(st.done, r)[i].event : i \in DOMAIN Append(st.done, r)}
          = {st.done[i].event : i \in DOMAIN st.done} \cup {r.event}
    BY <1>1, <2>1, DoneAppend
  <2>3. QED
    BY <2>1, <2>2 DEF r, Done
<1>9. Turn(st) = CASE ev.type = "engine_close" -> SupCloses(done)
                   [] ev.type = "leave_room" -> SupLeaves(done, ev.user)
                   [] ev.type = "onSupUpdate" -> done
                   [] ev.type = "on_client_msg" ->
                        CASE st.users[ev.user] = "none" -> drop
                          [] st.users[ev.user] = "in" -> done
                          [] st.users[ev.user] = "init" -> back
  <2>1. /\ next = [st EXCEPT !.queue = Tail(@), !.frame = at]
        /\ done = [next EXCEPT !.done = Append(@, [event |-> e, frame |-> at])]
        /\ back = WaitsFor(next, e)
    BY <1>1 DEF SupState, WaitsFor
  <2> HIDE DEF next, done, back
  <2>2. QED
    BY <2>1 DEF Turn, next, drop
<1> HIDE DEF e, ev, at, q, d
<1>10. /\ next \in SupState /\ done \in SupState /\ drop \in SupState /\ back \in SupState
  <2>1. <<e>> \o q \in Seq(Nat)
    BY <1>1, <1>2
  <2> DEFINE b == <<e>> \o q
  <2> HIDE DEF b
  <2>2. b \in Seq(Nat)
    BY <2>1 DEF b
  <2>3. /\ [next EXCEPT !.queue = b, !.blocked = TRUE] \in SupState
        /\ next \in SupState /\ done \in SupState /\ drop \in SupState
    BY <1>1, <1>2, <1>5, <1>7, <2>2 DEF SupState
  <2>4. QED
    BY <2>3 DEF b
<1>11. /\ done.queue = q /\ drop.queue = q /\ back.queue = st.queue
       /\ done.done = d /\ drop.done = st.done /\ back.done = st.done
       /\ done.frame = at /\ drop.frame = at /\ back.frame = at
       /\ \A x \in {done, drop, back} :
            x.room = st.room /\ x.made = st.made /\ x.loading = st.loading
  BY <1>1, <1>2 DEF SupState
<1>12. SupOK(done)
  <2>1. done.queue = q /\ done.done = d /\ done.frame = at
    BY <1>11
  <2>2. done.room = st.room /\ done.made = st.made /\ done.loading = st.loading
    BY <1>11
  <2>3. Done(done) = Done(st) \cup {e}
    BY <1>8, <2>1 DEF Done
  <2>4. /\ ToSet(st.queue) \subseteq Sent /\ Done(st) \subseteq Sent
        /\ st.room <= st.made
        /\ \A u \in Users : st.loading[u] <= st.made /\ (st.loading[u] # 0 => u \in entered)
    BY DEF SupOK
  <2>5. ToSet(done.queue) \subseteq Sent /\ Done(done) \subseteq Sent
    BY <1>2, <1>3, <2>1, <2>3, <2>4
  <2>6. done.frame = 0 \/ \E x \in Sent : done.frame = events[x].frame
    BY <1>6, <2>1
  <2>7. done \in SupState
    BY <1>10
  <2> HIDE DEF done
  <2>8. QED
    BY <2>2, <2>4, <2>5, <2>6, <2>7 DEF SupOK
<1>13. SupOK(drop) /\ SupOK(back)
  BY <1>2, <1>3, <1>6, <1>10, <1>11 DEF SupOK, Done
<1>14. Turn(st) \in {done, drop, back, SupCloses(done), SupLeaves(done, ev.user)}
  <2>1. st.users \in [Users -> {"none", "init", "in"}]
    BY <1>1 DEF SupState
  <2> HIDE DEF next, done, drop, back
  <2>2. CASE ev.type = "on_client_msg"
    <3>1. st.users[ev.user] \in {"none", "init", "in"}
      BY <1>4, <2>1, <2>2
    <3>2. QED
      BY <1>9, <2>2, <3>1
  <2>3. QED
    BY <1>4, <1>9, <2>2 DEF Types
<1>15. Noted(st) = [event |-> e, frame |-> at]
  BY DEF Noted, e, ev, at
<1> HIDE DEF next, done, drop, back
<1>16. \/ Turn(st) = drop \/ Turn(st) = back
       \/ /\ SupOK(Turn(st))
          /\ Turn(st).queue = q /\ Turn(st).done = d /\ Turn(st).frame = at
  BY <1>11, <1>12, <1>14, SupClosesKeeps, SupLeavesKeeps
<1>17. d = Append(st.done, Noted(st)) /\ Noted(st).frame = at
  BY <1>15 DEF d
<1>18. SupOK(Turn(st)) /\ Turn(st).frame = at
  BY <1>11, <1>13, <1>16
<1>19. QED
  BY <1>3, <1>11, <1>16, <1>17, <1>18 DEF e, q

\* A turn keeps a supervisor in step.
LEMMA TurnInStep ==
  ASSUME LogicOK, OrderInv, NEW st, SupOK(st), st.queue # << >>,
         NEW H, H \subseteq DOMAIN events, InStep(st, H)
  PROVE  InStep(Turn(st), H)
<1> DEFINE e == Head(st.queue)
           q == Tail(st.queue)
           n == Noted(st)
           t == Turn(st)
<1>1. /\ st.queue \in Seq(Nat) /\ st.done \in Seq([event : Nat, frame : Nat])
      /\ st.frame \in Nat
  BY DEF SupOK, SupState
<1>2. /\ e \in ToSet(st.queue) /\ ToSet(q) \subseteq ToSet(st.queue)
  BY <1>1, HeadAndTail
<1>3. Increasing(q) /\ Below({e}, ToSet(q))
  BY <1>1, IncreasingTail DEF InStep
<1>4. e \in Sent /\ e \in DOMAIN events /\ e \in Nat /\ events[e].frame \in Nat
  BY TurnCases, SentEvent
<1>5. n = [event |-> e, frame |-> events[e].frame]
  <2>1. st.frame <= events[e].frame
    BY <1>2 DEF InStep
  <2>2. CatchUp(st.frame, events[e].frame) = events[e].frame
    BY <1>1, <1>4, <2>1 DEF CatchUp
  <2>3. QED
    BY <2>2 DEF Noted
<1>6. n \in [event : Nat, frame : Nat] /\ n.event = e /\ n.frame = events[e].frame
  BY <1>4, <1>5
<1>7. /\ t.frame = events[e].frame
      /\ \/ t.queue = q /\ t.done = st.done
         \/ t.queue = q /\ t.done = Append(st.done, n)
         \/ t.queue = st.queue /\ t.done = st.done
  BY <1>6, TurnCases
<1>8. \A x \in ToSet(st.queue) \cup H : x \in DOMAIN events /\ x \in Nat
  <2>1. ToSet(st.queue) \subseteq Sent
    BY DEF SupOK
  <2>2. DOMAIN events \subseteq Nat
    BY DEF LogicOK
  <2>3. QED
    BY <2>1, <2>2, SentEvent
<1>9. \A x \in ToSet(st.queue) \cup H : e <= x
  <2>1. ASSUME NEW x \in ToSet(st.queue) PROVE e <= x
    <3>1. PICK i \in 1..Len(st.queue) : x = st.queue[i]
      BY <1>1, InToSet, Zenon
    <3>2. e = st.queue[1] /\ 1 \in DOMAIN st.queue /\ i \in DOMAIN st.queue
      BY <1>1, <3>1
    <3>3. i = 1 \/ 1 < i
      OBVIOUS
    <3>4. x \in Nat
      BY <1>8
    <3>5. QED
      BY <1>4, <3>1, <3>2, <3>3, <3>4 DEF InStep, Increasing
  <2>2. ASSUME NEW x \in H PROVE e <= x
    BY <1>2, <1>4, <1>8, <2>2 DEF InStep, Below
  <2>3. QED
    BY <2>1, <2>2
<1>10. \A x \in ToSet(st.queue) \cup H : events[e].frame <= events[x].frame
  BY <1>4, <1>8, <1>9 DEF OrderInv
<1> HIDE DEF e, q, n, t
<1>11. ASSUME t.queue = q, t.done = st.done PROVE InStep(t, H)
  <2>1. Below(Done(st), ToSet(q)) /\ Below(Done(st) \cup ToSet(q), H)
    BY <1>2 DEF InStep, Below
  <2>2. \A x \in ToSet(t.queue) \cup H : t.frame <= events[x].frame
    BY <1>2, <1>7, <1>10, <1>11
  <2>3. Done(t) = Done(st)
    BY <1>11 DEF Done
  <2>4. QED
    BY <1>3, <1>11, <2>1, <2>2, <2>3 DEF InStep
<1>12. ASSUME t.queue = st.queue, t.done = st.done PROVE InStep(t, H)
  <2>1. \A x \in ToSet(t.queue) \cup H : t.frame <= events[x].frame
    BY <1>7, <1>10, <1>12
  <2>2. Done(t) = Done(st)
    BY <1>12 DEF Done
  <2>3. QED
    BY <1>12, <2>1, <2>2 DEF InStep
<1>13. ASSUME t.queue = q, t.done = Append(st.done, n) PROVE InStep(t, H)
  <2> DEFINE a == Append(st.done, n)
  <2>1. /\ a \in Seq([event : Nat, frame : Nat]) /\ Len(a) = Len(st.done) + 1
        /\ a[Len(st.done) + 1] = n /\ \A i \in 1..Len(st.done) : a[i] = st.done[i]
    BY <1>1, <1>6
  <2>2. {a[i].event : i \in DOMAIN a} = Done(st) \cup {e}
    BY <1>1, <1>6, DoneAppend DEF Done
  <2> HIDE DEF a
  <2>3. DOMAIN a = DOMAIN st.done \cup {Len(st.done) + 1} /\ DOMAIN st.done = 1..Len(st.done)
        /\ Len(st.done) \in Nat
    <3>1. DOMAIN a = 1..Len(a) /\ DOMAIN st.done = 1..Len(st.done) /\ Len(st.done) \in Nat
      BY <1>1, <2>1, LenProperties, Zenon
    <3>2. QED
      BY <2>1, <3>1
  <2>4. \A i \in DOMAIN st.done : st.done[i].event \in Done(st) /\ st.done[i].event < e
    BY <1>2 DEF InStep, Below, Done
  <2>5. ASSUME NEW i \in DOMAIN a, NEW j \in DOMAIN a, i < j
        PROVE  a[i].event < a[j].event
    <3>1. i \in DOMAIN st.done /\ a[i] = st.done[i]
      BY <2>1, <2>3, <2>5
    <3>2. CASE j \in DOMAIN st.done
      BY <2>1, <2>3, <2>5, <3>1, <3>2 DEF InStep
    <3>3. CASE j = Len(st.done) + 1
      BY <1>6, <2>1, <2>4, <3>1, <3>3
    <3>4. QED
      BY <2>3, <3>2, <3>3
  <2>6. \A i \in DOMAIN a : a[i].frame = events[a[i].event].frame
    BY <1>6, <2>1, <2>3 DEF InStep
  <2>7. t.done = a
    BY <1>13 DEF a
  <2>8. Done(t) = Done(st) \cup {e}
    BY <2>2, <2>7 DEF Done
  <2>9. Below(Done(t), ToSet(q)) /\ Below(Done(t) \cup ToSet(q), H)
    BY <1>2, <1>3, <2>8 DEF InStep, Below
  <2>10. \A x \in ToSet(t.queue) \cup H : t.frame <= events[x].frame
    BY <1>2, <1>7, <1>10, <1>13
  <2>11. QED
    BY <1>3, <1>13, <2>5, <2>6, <2>7, <2>9, <2>10 DEF InStep
<1>14. QED
  BY <1>7, <1>11, <1>12, <1>13 DEF t

\* What is true of a supervisor and kept by every turn is true after its loop.
LEMMA DoLoopKeeps ==
  ASSUME NEW T, NEW st \in T,
         \A x \in T : x.queue \in Seq(Nat) /\ [x EXCEPT !.blocked = FALSE] \in T,
         \A x \in T : x.queue # << >> => Turn(x) \in T
  PROVE  DoLoop(st) \in T
<1> DEFINE n == Len(st.queue)
           b == [st EXCEPT !.blocked = FALSE]
           Rest(x) == IF x.blocked \/ x.queue = << >> THEN x ELSE Turn(x)
           F == [p \in T \X Nat |-> Rest(p[1])]
           turn == CHOOSE turn : turn = [i \in 0..n |-> IF i = 0 THEN b
                     ELSE IF turn[i - 1].blocked \/ turn[i - 1].queue = << >> THEN turn[i - 1]
                     ELSE Turn(turn[i - 1])]
<1>1. n \in Nat /\ b \in T
  OBVIOUS
<1>2. DoLoop(st) = turn[n]
  BY DEF DoLoop
<1> HIDE DEF n, b
<1>3. \A x \in T : Rest(x) \in T
  OBVIOUS
<1>4. F \in [T \X Nat -> T] /\ \A x \in T, i \in Nat : F[<<x, i>>] = Rest(x)
  BY <1>3
<1> HIDE DEF F
<1>5. PICK g \in [0..n -> T] : IsRun(g, b, F, n)
  <2> HIDE DEF turn, Rest
  <2>1. QED
    BY <1>1, <1>4, RunExists
<1>6. \A i \in 1..n : g[i - 1] \in T /\ i \in Nat
  BY <1>1
<1>7. g = [i \in 0..n |-> IF i = 0 THEN b ELSE Rest(g[i - 1])]
  <2>1. \A i \in 0..n : g[i] = IF i = 0 THEN b ELSE Rest(g[i - 1])
    <3> HIDE DEF Rest
    <3>1. ASSUME NEW i \in 0..n PROVE g[i] = IF i = 0 THEN b ELSE Rest(g[i - 1])
      <4>1. CASE i = 0
        BY <1>5, <4>1 DEF IsRun
      <4>2. CASE i # 0
        <5>1. i \in 1..n
          BY <1>1, <4>2
        <5>2. QED
          BY <1>4, <1>5, <1>6, <5>1, <4>2 DEF IsRun
      <4>3. QED
        BY <4>1, <4>2
    <3>2. QED
      BY <3>1
  <2> HIDE DEF Rest
  <2>2. QED
    BY <2>1
<1>8. turn = [i \in 0..n |-> IF i = 0 THEN b ELSE Rest(turn[i - 1])]
  BY <1>7
<1> HIDE DEF turn, Rest
<1> DEFINE G == {i \in 0..n : turn[i] \in T}
<1>9. 0 \in G
  BY <1>1, <1>8
<1>10. \A i \in 1..n : i - 1 \in G => i \in G
  <2>1. ASSUME NEW i \in 1..n, i - 1 \in G PROVE i \in G
    <3>1. i \in 0..n /\ i # 0
      BY <1>1
    <3>2. turn[i] = Rest(turn[i - 1])
      BY <1>8, <3>1
    <3>3. QED
      BY <1>3, <2>1, <3>1, <3>2
  <2>2. QED
    BY <2>1
<1>11. \A i \in 0..n : i \in G
  <2> HIDE DEF G
  <2>1. QED
    BY <1>1, <1>9, <1>10, EveryTurn
<1>12. QED
  BY <1>1, <1>2, <1>11

\* Only the queue, the frame count and what was executed matter for being in step, and
\* what is still to come may get less.
LEMMA InStepSame ==
  ASSUME NEW x, NEW y, y.queue = x.queue, y.done = x.done, y.frame = x.frame,
         NEW H, NEW K, K \subseteq H, InStep(x, H)
  PROVE  InStep(y, K)
<1>1. Done(y) = Done(x)
  BY DEF Done
<1>2. Below(Done(y) \cup ToSet(y.queue), K)
  BY <1>1 DEF InStep, Below
<1>3. \A e \in ToSet(y.queue) \cup K : y.frame <= events[e].frame
  BY DEF InStep
<1>4. QED
  BY <1>1, <1>2, <1>3 DEF InStep

LEMMA Unblocked ==
  ASSUME NEW st, SupOK(st)
  PROVE  /\ SupOK([st EXCEPT !.blocked = FALSE])
         /\ \A H : InStep(st, H) => InStep([st EXCEPT !.blocked = FALSE], H)
<1> DEFINE b == [st EXCEPT !.blocked = FALSE]
<1>1. /\ b \in SupState /\ b.queue = st.queue /\ b.done = st.done
      /\ b.frame = st.frame /\ b.room = st.room /\ b.made = st.made
      /\ b.loading = st.loading
  BY DEF SupOK, SupState
<1> HIDE DEF b
<1>2. SupOK(b)
  BY <1>1 DEF SupOK, Done
<1>3. \A H : InStep(st, H) => InStep(b, H)
  BY <1>1, InStepSame
<1>4. QED
  BY <1>2, <1>3 DEF b

\* The states of a supervisor, and those that are in step when H is still to come.
SupStates == {x \in SupState : SupOK(x)}
StepStates(H) == {x \in SupStates : InStep(x, H)}

LEMMA LoopOK ==
  ASSUME LogicOK, NEW st \in SupStates
  PROVE  DoLoop(st) \in SupStates
<1>1. ASSUME NEW x \in SupStates
      PROVE  x.queue \in Seq(Nat) /\ [x EXCEPT !.blocked = FALSE] \in SupStates
  BY Unblocked DEF SupStates, SupOK, SupState
<1>2. ASSUME NEW x \in SupStates, x.queue # << >> PROVE Turn(x) \in SupStates
  BY <1>2, TurnCases DEF SupStates, SupOK
<1>3. QED
  BY <1>1, <1>2, DoLoopKeeps

LEMMA LoopInStep ==
  ASSUME LogicOK, OrderInv, NEW H, H \subseteq DOMAIN events, NEW st \in StepStates(H)
  PROVE  DoLoop(st) \in StepStates(H)
<1>1. ASSUME NEW x \in StepStates(H)
      PROVE  x.queue \in Seq(Nat) /\ [x EXCEPT !.blocked = FALSE] \in StepStates(H)
  <2>1. SupOK(x) /\ InStep(x, H) /\ x \in SupState
    BY DEF StepStates, SupStates
  <2>2. SupOK([x EXCEPT !.blocked = FALSE]) /\ InStep([x EXCEPT !.blocked = FALSE], H)
    BY <2>1, Unblocked
  <2>3. x.queue \in Seq(Nat)
    BY <2>1 DEF SupState
  <2>4. QED
    BY <2>2, <2>3 DEF StepStates, SupStates, SupOK
<1>2. ASSUME NEW x \in StepStates(H), x.queue # << >> PROVE Turn(x) \in StepStates(H)
  <2>1. SupOK(x) /\ InStep(x, H)
    BY DEF StepStates, SupStates
  <2>2. SupOK(Turn(x)) /\ InStep(Turn(x), H)
    BY <1>2, <2>1, TurnCases, TurnInStep
  <2>3. QED
    BY <2>2 DEF StepStates, SupStates, SupOK
<1>3. QED
  BY <1>1, <1>2, DoLoopKeeps

\* An event joins the queue.
Queued(st, e) == [st EXCEPT !.queue = Append(@, e)]

LEMMA QueuedKeeps ==
  ASSUME LogicOK, NEW st, SupOK(st), NEW e \in Sent
  PROVE  /\ Queued(st, e) \in SupStates
         /\ \A H : Below({e}, H) /\ InStep(st, {e} \cup H) => InStep(Queued(st, e), H)
<1> DEFINE q == Append(st.queue, e)
           x == [st EXCEPT !.queue = q]
<1>1. st.queue \in Seq(Nat) /\ e \in Nat /\ st \in SupState
  BY SentEvent DEF SupOK, SupState
<1>2. q \in Seq(Nat) /\ ToSet(q) = ToSet(st.queue) \cup {e}
  BY <1>1, ToSetAppend
<1>3. \A H : InStep(st, {e} \cup H) => Increasing(q)
  <2>1. ASSUME NEW H, InStep(st, {e} \cup H) PROVE Increasing(q)
    <3>1. Increasing(st.queue) /\ Below(ToSet(st.queue), {e})
      BY <2>1 DEF InStep, Below
    <3>2. QED
      BY <1>1, <3>1, IncreasingAppend
  <2>2. QED
    BY <2>1
<1>4. Queued(st, e) = x
  BY <1>1 DEF Queued, SupState
<1> HIDE DEF q
<1>5. /\ x \in SupState /\ x.queue = q /\ x.done = st.done /\ x.frame = st.frame
      /\ x.room = st.room /\ x.made = st.made /\ x.loading = st.loading
  BY <1>1, <1>2 DEF SupState
<1> HIDE DEF x
<1>6. SupOK(x)
  BY <1>2, <1>5 DEF SupOK, Done
<1>7. ASSUME NEW H, Below({e}, H), InStep(st, {e} \cup H) PROVE InStep(x, H)
  <2>1. Done(x) = Done(st)
    BY <1>5 DEF Done
  <2>2. Below(Done(x), ToSet(q)) /\ Below(Done(x) \cup ToSet(q), H)
    <3>1. /\ Below(Done(st), ToSet(st.queue))
          /\ Below(Done(st) \cup ToSet(st.queue), {e} \cup H)
      BY <1>7 DEF InStep
    <3>2. QED
      BY <1>2, <1>7, <2>1, <3>1 DEF Below
  <2>3. \A y \in ToSet(q) \cup H : x.frame <= events[y].frame
    BY <1>2, <1>5, <1>7 DEF InStep
  <2>4. Increasing(q)
    BY <1>3, <1>7
  <2>5. QED
    BY <1>5, <1>7, <2>2, <2>3, <2>4 DEF InStep
<1>8. QED
  BY <1>4, <1>5, <1>6, <1>7 DEF SupStates

LEMMA ReceiveOK ==
  ASSUME LogicOK, NEW st \in SupStates, NEW e \in Sent
  PROVE  Receive(st, e) \in SupStates
<1>1. Receive(st, e) = DoLoop(Queued(st, e))
  BY DEF Receive, Queued
<1>2. QED
  BY <1>1, QueuedKeeps, LoopOK DEF SupStates

LEMMA ReceiveInStep ==
  ASSUME LogicOK, OrderInv, NEW e \in Sent, NEW H, H \subseteq DOMAIN events,
         Below({e}, H), NEW st \in StepStates({e} \cup H)
  PROVE  Receive(st, e) \in StepStates(H)
<1>1. Receive(st, e) = DoLoop(Queued(st, e))
  BY DEF Receive, Queued
<1>2. Queued(st, e) \in StepStates(H)
  BY QueuedKeeps DEF StepStates, SupStates
<1>3. QED
  BY <1>1, <1>2, LoopInStep

\* A list is received event by event.
LEMMA ReceiveAllKeeps ==
  ASSUME LogicOK, NEW st \in SupStates, NEW l \in Seq(Nat), ToSet(l) \subseteq Sent
  PROVE  /\ ReceiveAll(st, l) \in SupStates
         /\ OrderInv /\ Increasing(l) /\ InStep(st, ToSet(l)) => InStep(ReceiveAll(st, l), {})
<1> DEFINE n == Len(l)
           T == SupStates
           Step(x, i) == IF i \in 1..n THEN Receive(x, l[i]) ELSE x
           F == [p \in T \X Nat |-> Step(p[1], p[2])]
           got == CHOOSE got : got = [i \in 0..n |-> IF i = 0 THEN st
                                                     ELSE Receive(got[i - 1], l[i])]
<1>1. n \in Nat
  OBVIOUS
<1>2. ReceiveAll(st, l) = got[n]
  BY DEF ReceiveAll
<1>3. \A i \in 1..n : l[i] \in Sent /\ l[i] \in Nat /\ l[i] \in ToSet(l)
  BY InToSet
<1> HIDE DEF n, T
<1>4. \A x \in T, i \in Nat : Step(x, i) \in T
  BY <1>3, ReceiveOK DEF T
<1>5. F \in [T \X Nat -> T] /\ \A x \in T, i \in Nat : F[<<x, i>>] = Step(x, i)
  <2> HIDE DEF Step
  <2>1. QED
    BY <1>4
<1>6. st \in T
  BY DEF T
<1>7. PICK g \in [0..n -> T] : IsRun(g, st, F, n)
  <2> HIDE DEF F, got, Step
  <2>1. QED
    BY <1>1, <1>5, <1>6, RunExists
<1>8. \A i \in 0..n : g[i] = IF i = 0 THEN st ELSE Receive(g[i - 1], l[i])
  <2> HIDE DEF F, got
  <2>1. ASSUME NEW i \in 0..n PROVE g[i] = IF i = 0 THEN st ELSE Receive(g[i - 1], l[i])
    <3>1. CASE i = 0
      BY <1>7, <3>1 DEF IsRun
    <3>2. CASE i # 0
      <4>1. i \in 1..n /\ i \in Nat /\ g[i - 1] \in T
        BY <1>1, <3>2
      <4>2. g[i] = F[<<g[i - 1], i>>]
        BY <1>7, <3>2 DEF IsRun
      <4>3. QED
        BY <1>5, <3>2, <4>1, <4>2
    <3>3. QED
      BY <3>1, <3>2
  <2>2. QED
    BY <2>1
<1>9. g = [i \in 0..n |-> IF i = 0 THEN st ELSE Receive(g[i - 1], l[i])]
  BY <1>8
<1>10. got = [i \in 0..n |-> IF i = 0 THEN st ELSE Receive(got[i - 1], l[i])]
  BY <1>9
<1> HIDE DEF got, F, Step
<1>11. \A i \in 0..n : got[i] \in T
  <2> DEFINE G == {i \in 0..n : got[i] \in T}
  <2>1. 0 \in G
    BY <1>1, <1>6, <1>10
  <2>2. ASSUME NEW i \in 1..n, i - 1 \in G PROVE i \in G
    <3>1. i \in 0..n /\ i # 0 /\ got[i - 1] \in T
      BY <1>1, <2>2
    <3>2. got[i] = Receive(got[i - 1], l[i])
      BY <1>10, <3>1
    <3>3. QED
      BY <1>3, <3>1, <3>2, ReceiveOK DEF T
  <2> HIDE DEF G
  <2>3. \A i \in 0..n : i \in G
    BY <1>1, <2>1, <2>2, EveryTurn
  <2>4. QED
    BY <2>3 DEF G
<1>12. ReceiveAll(st, l) \in SupStates
  BY <1>1, <1>2, <1>11 DEF T
<1>13. ASSUME OrderInv, Increasing(l), InStep(st, ToSet(l))
       PROVE  InStep(ReceiveAll(st, l), {})
  <2> DEFINE H(i) == {l[j] : j \in (i + 1)..n}
             G == {i \in 0..n : InStep(got[i], H(i))}
  <2>1. 0 \in G
    <3>1. H(0) = ToSet(l)
      BY DEF n, ToSet
    <3>2. got[0] = st
      BY <1>1, <1>10
    <3> HIDE DEF H
    <3>3. QED
      BY <1>1, <1>13, <3>1, <3>2
  <2>2. ASSUME NEW i \in 1..n, i - 1 \in G PROVE i \in G
    <3> DEFINE e == l[i]
               K == H(i)
    <3>1. i \in 0..n /\ i # 0 /\ i - 1 \in 0..n /\ InStep(got[i - 1], H(i - 1))
      BY <1>1, <2>2
    <3>2. got[i] = Receive(got[i - 1], e)
      BY <1>10, <3>1
    <3>3. H(i - 1) = {e} \cup K
      <4>1. (i - 1) + 1 = i /\ i..n = {i} \cup (i + 1)..n
        BY <1>1
      <4>2. QED
        BY <4>1
    <3>4. Below({e}, K)
      <4>1. DOMAIN l = 1..n
        BY DEF n
      <4>2. \A j \in (i + 1)..n : i < j /\ i \in DOMAIN l /\ j \in DOMAIN l
        BY <1>1, <4>1
      <4>3. QED
        BY <1>13, <4>2 DEF Below, Increasing
    <3>5. K \subseteq DOMAIN events
      <4>1. \A j \in (i + 1)..n : j \in 1..n
        BY <1>1
      <4>2. QED
        BY <1>3, <4>1, SentEvent
    <3>6. e \in Sent
      BY <1>3
    <3>7. got[i - 1] \in StepStates({e} \cup K)
      BY <1>11, <3>1, <3>3 DEF StepStates, T
    <3> HIDE DEF e, K
    <3>8. Receive(got[i - 1], e) \in StepStates(K)
      BY <1>13, <3>4, <3>5, <3>6, <3>7, ReceiveInStep
    <3>9. QED
      BY <3>1, <3>2, <3>8 DEF K, StepStates
  <2> HIDE DEF G
  <2>3. n \in G
    <3>1. \A i \in 0..n : i \in G
      BY <1>1, <2>1, <2>2, EveryTurn
    <3>2. QED
      BY <1>1, <3>1
  <2>4. H(n) = {}
    BY <1>1
  <2>5. QED
    BY <1>2, <2>3, <2>4 DEF G
<1>14. QED
  BY <1>12, <1>13

-----------------------------------------------------------------------------
(* Events that happen.                                                     *)

\* What the steps that add events add: events of this frame.
Fresh(new) ==
  /\ new \in Seq(Happening)
  /\ \A i \in DOMAIN new :
       /\ new[i].frame = frame
       /\ new[i].type \in {"on_client_msg", "leave_room"} => new[i].user \in Users

New(new) == (Len(events) + 1)..(Len(events) + Len(new))

\* The list with the new events: they come last, and go up.
LEMMA LongerKeeps ==
  ASSUME LogicOK, OrderInv, NEW new, Fresh(new)
  PROVE  /\ Longer(new) \in Seq(Nat) /\ Increasing(Longer(new))
         /\ ToSet(Longer(new)) = ToSet(list) \cup New(new)
<1> DEFINE m == [i \in DOMAIN new |-> Len(events) + i]
<1>1. Len(events) \in Nat /\ Len(new) \in Nat /\ DOMAIN new = 1..Len(new)
      /\ DOMAIN events = 1..Len(events)
  BY DEF LogicOK, Fresh
<1>2. m \in Seq(Nat) /\ Len(m) = Len(new) /\ DOMAIN m = 1..Len(new)
      /\ \A i \in 1..Len(new) : m[i] = Len(events) + i
  BY <1>1
<1>3. ToSet(m) = New(new)
  <2>1. ASSUME NEW x \in New(new) PROVE x \in ToSet(m)
    <3>1. x - Len(events) \in 1..Len(new) /\ x = Len(events) + (x - Len(events))
      BY <1>1 DEF New
    <3>2. m[x - Len(events)] = x
      BY <1>2, <3>1
    <3> HIDE DEF m
    <3>3. QED
      BY <1>2, <3>1, <3>2, InToSet
  <2>2. ASSUME NEW x \in ToSet(m) PROVE x \in New(new)
    <3>1. PICK i \in 1..Len(m) : x = m[i]
      BY <1>2, InToSet, Zenon
    <3>2. QED
      BY <1>1, <1>2, <3>1 DEF New
  <2>3. QED
    BY <2>1, <2>2
<1>4. Increasing(m)
  BY <1>1, <1>2 DEF Increasing
<1> HIDE DEF m
<1>5. list \in Seq(Nat) /\ Increasing(list)
  BY DEF LogicOK, OrderInv
<1>6. Below(ToSet(list), ToSet(m))
  <2>1. ToSet(list) \subseteq DOMAIN events
    BY DEF LogicOK
  <2>2. QED
    BY <1>1, <1>3, <2>1 DEF Below, New
<1>7. /\ list \o m \in Seq(Nat) /\ Increasing(list \o m)
      /\ ToSet(list \o m) = ToSet(list) \cup ToSet(m)
  BY <1>2, <1>4, <1>5, <1>6, IncreasingConcat, ToSetConcat
<1>8. Longer(new) = list \o m
  BY DEF Longer, m
<1>9. QED
  BY <1>3, <1>7, <1>8

\* The events with the new ones.
LEMMA EventsGrow ==
  ASSUME LogicOK, OrderInv, NEW new, Fresh(new), events' = events \o new,
         frame' \in 0..MaxFrame, frame <= frame'
  PROVE  /\ events' \in Seq(Happening)
         /\ DOMAIN events' = DOMAIN events \cup New(new)
         /\ \A i \in DOMAIN events : events'[i] = events[i]
         /\ \A i \in DOMAIN events' :
              /\ events'[i].frame <= frame'
              /\ events'[i].type \in {"on_client_msg", "leave_room"}
                   => events'[i].user \in Users
         /\ \A i, j \in DOMAIN events' : i <= j => events'[i].frame <= events'[j].frame
<1>1. Len(events) \in Nat /\ Len(new) \in Nat /\ DOMAIN new = 1..Len(new)
      /\ DOMAIN events = 1..Len(events) /\ events \in Seq(Happening) /\ new \in Seq(Happening)
  BY DEF LogicOK, Fresh
<1>2. /\ events' \in Seq(Happening) /\ Len(events') = Len(events) + Len(new)
      /\ \A i \in 1..(Len(events) + Len(new)) :
           events'[i] = IF i <= Len(events) THEN events[i] ELSE new[i - Len(events)]
  BY <1>1, ConcatProperties
<1>3. DOMAIN events' = 1..(Len(events) + Len(new))
  BY <1>2
<1>4. DOMAIN events' = DOMAIN events \cup New(new)
  BY <1>1, <1>3 DEF New
<1>5. ASSUME NEW i \in DOMAIN events
      PROVE  events'[i] = events[i] /\ events[i] \in Happening
  BY <1>1, <1>2
<1>6. ASSUME NEW i \in New(new)
      PROVE  \E k \in DOMAIN new : events'[i] = new[k]
  <2>1. i - Len(events) \in 1..Len(new) /\ i \in 1..(Len(events) + Len(new)) /\ ~(i <= Len(events))
    BY <1>1 DEF New
  <2>2. events'[i] = new[i - Len(events)]
    BY <1>2, <2>1
  <2>3. QED
    BY <1>1, <2>1, <2>2
<1>7. frame \in Nat /\ frame' \in Nat
  BY EventSyncAssumption DEF LogicOK
<1>8. ASSUME NEW i \in DOMAIN events'
      PROVE  /\ events'[i].frame \in Nat
             /\ events'[i].frame <= frame /\ events'[i].frame <= frame'
             /\ events'[i].type \in {"on_client_msg", "leave_room"}
                  => events'[i].user \in Users
             /\ i \in New(new) => events'[i].frame = frame
  <2>1. CASE i \in DOMAIN events
    <3>1. i \notin New(new)
      BY <1>1, <2>1 DEF New
    <3>2. QED
      BY <1>5, <1>7, <2>1, <3>1 DEF LogicOK, Happening
  <2>2. CASE i \in New(new)
    BY <1>6, <1>7, <2>2 DEF Fresh
  <2>3. QED
    BY <1>4, <2>1, <2>2
<1>9. ASSUME NEW i \in DOMAIN events', NEW j \in DOMAIN events', i <= j
      PROVE  events'[i].frame <= events'[j].frame
  <2>1. CASE j \in New(new)
    BY <1>7, <1>8, <2>1
  <2>2. CASE j \in DOMAIN events
    <3>1. i \in DOMAIN events
      BY <1>1, <1>3, <1>9, <2>2
    <3>2. QED
      BY <1>5, <1>9, <2>2, <3>1 DEF OrderInv
  <2>3. QED
    BY <1>4, <2>1, <2>2
<1>10. QED
  BY <1>2, <1>4, <1>5, <1>8, <1>9

-----------------------------------------------------------------------------
(* What a step must keep of the supervisors.                               *)

\* A step that leaves the supervisors alone, and only adds.
LEMMA SupsFrame ==
  ASSUME LogicOK, SupsOK, sup' = sup, entered \subseteq entered', Sent \subseteq Sent',
         \A e \in DOMAIN events : events'[e] = events[e]
  PROVE  SupsOK'
<1>1. ASSUME NEW s \in Sups PROVE SupOK(sup[s])'
  <2>1. sup[s] \in SupState /\ SupOK(sup[s])
    BY DEF SupsOK, SupOK
  <2>2. sup[s] \in SupState'
    <3>1. sup[s].members \in Seq(entered')
      BY <2>1, SeqMonotonic DEF SupState
    <3>2. QED
      BY <2>1, <3>1 DEF SupState
  <2>3. \A e \in Sent : events'[e] = events[e]
    BY SentEvent
  <2>4. QED
    BY <2>1, <2>2, <2>3 DEF SupOK, Done
<1>2. QED
  BY <1>1 DEF SupsOK

\* A step that changes one supervisor only.
LEMMA SupsChange ==
  ASSUME SupsOK, UNCHANGED logicVars, NEW s \in Sups, NEW x, SupOK(x),
         sup' = [sup EXCEPT ![s] = x]
  PROVE  SupsOK'
<1>1. /\ entered' = entered /\ Sent' = Sent /\ events' = events
  BY DEF logicVars, Sent
<1>2. ASSUME NEW r \in Sups PROVE SupOK(sup'[r])
  BY DEF SupsOK
<1>3. ASSUME NEW r \in Sups PROVE SupOK(sup[r])'
  <2> DEFINE y == sup'[r]
  <2>1. SupOK(y)
    BY <1>2
  <2>2. y \in SupState'
    BY <1>1, <2>1 DEF SupOK, SupState
  <2>3. /\ y.room <= y.made
        /\ \A u \in Users : y.loading[u] <= y.made /\ (y.loading[u] # 0 => u \in entered')
        /\ ToSet(y.queue) \subseteq Sent' /\ Done(y) \subseteq Sent'
        /\ y.frame = 0 \/ \E z \in Sent' : y.frame = events'[z].frame
    BY <1>1, <2>1 DEF SupOK
  <2>4. QED
    BY <2>2, <2>3 DEF SupOK, Done
<1>4. QED
  BY <1>3 DEF SupsOK

LEMMA ComingSent ==
  ASSUME NEW s
  PROVE  Coming(s) \subseteq Sent
BY DEF Coming, Sent

\* Supervisors that are left alone stay in step when no more is on its way.
LEMMA StepFrame ==
  ASSUME LogicOK, SupsOK, StepInv, sup' = sup, wire' \subseteq wire, sent' = sent,
         overlapped' = overlapped, \A e \in DOMAIN events : events'[e] = events[e]
  PROVE  StepInv'
<1>1. ASSUME ~overlapped, NEW s \in Sups PROVE InStep(sup[s], Coming(s))'
  <2> DEFINE st == sup[s]
             K == Coming(s)'
  <2>1. InStep(st, Coming(s)) /\ SupOK(st)
    BY <1>1 DEF StepInv, SupsOK
  <2>2. K \subseteq Coming(s)
    BY DEF Coming
  <2>3. InStep(st, K)
    BY <2>1, <2>2, InStepSame
  <2>4. K \subseteq DOMAIN events /\ ToSet(st.queue) \subseteq DOMAIN events
        /\ Done(st) \subseteq DOMAIN events
    BY <2>1, <2>2, ComingSent, SentEvent DEF SupOK
  <2>5. \A i \in DOMAIN st.done : events'[st.done[i].event] = events[st.done[i].event]
    BY <2>4 DEF Done
  <2>6. (sup[s])' = st
    OBVIOUS
  <2> HIDE DEF st, K
  <2>7. /\ \A i, j \in DOMAIN st.done : i < j => st.done[i].event < st.done[j].event
        /\ \A i \in DOMAIN st.done : st.done[i].frame = events'[st.done[i].event].frame
        /\ Increasing(st.queue)
        /\ Below(Done(st), ToSet(st.queue)) /\ Below(Done(st) \cup ToSet(st.queue), K)
        /\ \A e \in ToSet(st.queue) \cup K : st.frame <= events'[e].frame
    BY <2>3, <2>4, <2>5 DEF InStep
  <2>8. QED
    BY <2>6, <2>7 DEF InStep, K
<1>2. QED
  BY <1>1 DEF StepInv

\* A supervisor that changes, and stays in step with what is on its way to it.
LEMMA StepChange ==
  ASSUME StepInv, UNCHANGED logicVars, wire' \subseteq wire,
         NEW s \in Sups, NEW x, sup = [r \in Sups |-> sup[r]], sup' = [sup EXCEPT ![s] = x],
         ~overlapped => InStep(x, Coming(s)')
  PROVE  StepInv'
<1>1. ASSUME ~overlapped, NEW r \in Sups PROVE InStep(sup'[r], Coming(r)')
  <2>1. CASE r = s
    BY <1>1, <2>1
  <2>2. CASE r # s
    <3>1. Coming(r)' \subseteq Coming(r)
      BY DEF Coming, logicVars
    <3>2. sup'[r] = sup[r] /\ InStep(sup[r], Coming(r))
      BY <1>1, <2>2 DEF StepInv
    <3>3. QED
      BY <3>1, <3>2, InStepSame
  <2>3. QED
    BY <2>1, <2>2
<1>2. ASSUME ~overlapped, NEW r \in Sups PROVE InStep(sup[r], Coming(r))'
  <2>1. events' = events
    BY DEF logicVars
  <2>2. InStep(sup'[r], Coming(r)')
    BY <1>1, <1>2
  <2> DEFINE y == sup'[r]
             K == Coming(r)'
  <2>3. /\ \A i, j \in DOMAIN y.done : i < j => y.done[i].event < y.done[j].event
        /\ \A i \in DOMAIN y.done : y.done[i].frame = events'[y.done[i].event].frame
        /\ Increasing(y.queue)
        /\ Below(Done(y), ToSet(y.queue)) /\ Below(Done(y) \cup ToSet(y.queue), K)
        /\ \A e \in ToSet(y.queue) \cup K : y.frame <= events'[e].frame
    BY <2>1, <2>2 DEF InStep
  <2>4. QED
    BY <2>3 DEF InStep
<1>3. overlapped' = overlapped
  BY DEF logicVars
<1>4. QED
  BY <1>2, <1>3 DEF StepInv

-----------------------------------------------------------------------------
(* The network's types, and Send.                                          *)

LEMMA SendSent ==
  ASSUME LogicOK, NEW l \in Seq(Nat), sent' = Append(sent, l)
  PROVE  /\ sent' \in Seq(Seq(Nat)) /\ Len(sent') = Len(sent) + 1
         /\ DOMAIN sent' = DOMAIN sent \cup {Len(sent) + 1}
         /\ Len(sent) + 1 \notin DOMAIN sent
         /\ \A c \in DOMAIN sent : sent'[c] = sent[c]
         /\ sent'[Len(sent) + 1] = l
         /\ Sent' = Sent \cup ToSet(l)
<1>1. sent \in Seq(Seq(Nat)) /\ Len(sent) \in Nat /\ DOMAIN sent = 1..Len(sent)
  BY DEF LogicOK
<1>2. /\ sent' \in Seq(Seq(Nat)) /\ Len(sent') = Len(sent) + 1
      /\ \A c \in 1..Len(sent) : sent'[c] = sent[c]
      /\ sent'[Len(sent) + 1] = l
  BY <1>1, AppendProperties
<1>3. DOMAIN sent' = DOMAIN sent \cup {Len(sent) + 1}
  <2>1. DOMAIN sent' = 1..(Len(sent) + 1)
    BY <1>2
  <2>2. QED
    BY <1>1, <2>1
<1>4. Len(sent) + 1 \notin DOMAIN sent
  BY <1>1
<1>5. Sent' = Sent \cup ToSet(l)
  BY <1>1, <1>2, <1>3 DEF Sent
<1>6. QED
  BY <1>1, <1>2, <1>3, <1>4, <1>5

\* A list is sent that holds the pool's and the events of New.
LEMMA SendInStep ==
  ASSUME LogicOK, WireOK, SupsOK, OrderInv, OneListInv, StepInv, running,
         NEW l \in Seq(Nat), NEW new, Fresh(new), Increasing(l),
         ToSet(l) = ToSet(list) \cup New(new),
         Send(l), sup' = sup,
         DOMAIN events \cup New(new) \subseteq DOMAIN events',
         \A e \in DOMAIN events : events'[e] = events[e],
         \A i, j \in DOMAIN events' : i <= j => events'[i].frame <= events'[j].frame,
         \A i \in DOMAIN events' : events'[i].frame \in Nat
  PROVE  StepInv'
<1>1. sent' = Append(sent, l) /\ wire' = wire \cup ({Len(sent) + 1} \X Sups)
      /\ overlapped' = (overlapped \/ wire # {} \/ waiting # {})
  BY DEF Send
<1>2. ASSUME ~overlapped', NEW s \in Sups PROVE InStep(sup[s], Coming(s))'
  <2> DEFINE st == sup[s]
             K == Coming(s)'
  <2>1. ~overlapped /\ wire = {} /\ waiting = {}
    BY <1>1, <1>2
  <2>2. K = ToSet(l)
    <3>1. {d \in DOMAIN sent' : <<d, s>> \in wire'} = {Len(sent) + 1}
      BY <1>1, <2>1, SendSent
    <3>2. K = UNION {ToSet(sent'[c]) : c \in {d \in DOMAIN sent' : <<d, s>> \in wire'}}
      BY DEF Coming
    <3>3. sent'[Len(sent) + 1] = l
      BY <1>1, SendSent
    <3>4. K = UNION {ToSet(sent'[c]) : c \in {Len(sent) + 1}}
      BY <3>1, <3>2, Zenon
    <3> HIDE DEF K
    <3>5. QED
      BY <3>3, <3>4
  <2>3. InStep(st, Coming(s)) /\ SupOK(st)
    BY <2>1 DEF StepInv, SupsOK
  <2>4. Sent \subseteq DOMAIN events /\ DOMAIN events \subseteq Nat
    BY DEF LogicOK
  <2>5. Below(Sent, ToSet(l))
    <3>1. Below(Sent, ToSet(list))
      BY <2>1 DEF OneListInv
    <3>2. Below(Sent, New(new))
      <4>1. Len(events) \in Nat /\ Len(new) \in Nat /\ DOMAIN events = 1..Len(events)
        BY DEF LogicOK, Fresh
      <4>2. QED
        BY <2>4, <4>1 DEF Below, New
    <3>3. QED
      BY <3>1, <3>2 DEF Below
  <2>6. /\ ToSet(st.queue) \subseteq Sent /\ Done(st) \subseteq Sent
        /\ st.frame = 0 \/ \E x \in Sent : st.frame = events[x].frame
    BY <2>3 DEF SupOK
  <2>7. ToSet(l) \subseteq DOMAIN events' /\ ToSet(list) \subseteq DOMAIN events
    BY DEF LogicOK
  <2>8. \A i \in DOMAIN st.done : events'[st.done[i].event] = events[st.done[i].event]
    BY <2>4, <2>6 DEF Done
  <2>9. (sup[s])' = st
    OBVIOUS
  <2>10. \A e \in ToSet(l) : st.frame <= events'[e].frame
    <3>1. CASE st.frame = 0
      BY <2>7, <3>1
    <3>2. CASE \E x \in Sent : st.frame = events[x].frame
      <4>1. PICK x \in Sent : st.frame = events[x].frame
        BY <3>2
      <4>2. x \in DOMAIN events' /\ st.frame = events'[x].frame
        BY <2>4, <4>1
      <4>3. \A e \in ToSet(l) : x <= e
        <5>1. \A e \in ToSet(l) : x < e /\ x \in Nat /\ e \in Nat
          BY <2>4, <2>5, InToSet DEF Below
        <5>2. QED
          BY <5>1
      <4>4. QED
        BY <2>7, <4>2, <4>3
    <3>3. QED
      BY <2>6, <3>1, <3>2
  <2> HIDE DEF st, K
  <2>11. Below(Done(st) \cup ToSet(st.queue), K)
    BY <2>2, <2>5, <2>6 DEF Below
  <2>12. \A e \in ToSet(st.queue) : st.frame <= events'[e].frame
    BY <2>3, <2>4, <2>6 DEF InStep
  <2>13. \A i \in DOMAIN st.done : st.done[i].frame = events'[st.done[i].event].frame
    BY <2>3, <2>8 DEF InStep
  <2>14. /\ \A i, j \in DOMAIN st.done : i < j => st.done[i].event < st.done[j].event
         /\ Increasing(st.queue) /\ Below(Done(st), ToSet(st.queue))
    BY <2>3 DEF InStep
  <2>15. \A e \in ToSet(st.queue) \cup K : st.frame <= events'[e].frame
    BY <2>2, <2>10, <2>12
  <2>16. QED
    BY <2>9, <2>11, <2>13, <2>14, <2>15 DEF InStep, K
<1>3. QED
  BY <1>2 DEF StepInv

-----------------------------------------------------------------------------
(* The steps of the logic node.                                            *)

LEMMA InitIInv ==
  ASSUME Init
  PROVE  IInv
<1>1. /\ DOMAIN events = {} /\ DOMAIN sent = {} /\ DOMAIN list = {}
      /\ ToSet(list) = {} /\ Sent = {}
  BY DEF Init, ToSet, Sent
<1>2. 0 \in 0..MaxFrame
  BY EventSyncAssumption
<1>3. LogicOK
  <2>1. \A S : << >> \in Seq(S)
    BY EmptySeq
  <2>2. /\ members \in Seq(entered) /\ events \in Seq(Happening) /\ list \in Seq(Nat)
        /\ sent \in Seq(Seq(Nat))
    BY <2>1, Zenon DEF Init
  <2>3. /\ entered \subseteq Users /\ frame \in 0..MaxFrame /\ running \in BOOLEAN
        /\ overlapped \in BOOLEAN /\ unsafe \subseteq DOMAIN events
    BY <1>2 DEF Init
  <2>4. QED
    BY <1>1, <2>2, <2>3 DEF LogicOK
<1>4. WireOK /\ PoolInv /\ OnlyUnsafeAreLost
  BY <1>1 DEF Init, WireOK, PoolInv, OnlyUnsafeAreLost
<1>5. OrderInv /\ OneListInv
  BY <1>1 DEF Init, OrderInv, OneListInv, Increasing, Below
<1>6. ASSUME NEW s \in Sups PROVE SupOK(sup[s]) /\ InStep(sup[s], Coming(s))
  <2> DEFINE st == sup[s]
             none == << >>
  <2>1. none \in Seq(entered) /\ none \in Seq(Nat) /\ none \in Seq([event : Nat, frame : Nat])
    BY EmptySeq
  <2>2. ToSet(none) = {} /\ DOMAIN none = {}
    BY DEF ToSet
  <2> HIDE DEF none
  <2>3. st = [room |-> 0, made |-> 0, users |-> [u \in Users |-> "none"],
              loading |-> [u \in Users |-> 0], members |-> none, queue |-> none,
              blocked |-> FALSE, frame |-> 0, done |-> none]
    BY DEF Init, none
  <2>4. st \in SupState
    BY <2>1, <2>3 DEF SupState
  <2>5. /\ st.room = 0 /\ st.made = 0 /\ st.loading = [u \in Users |-> 0]
        /\ st.queue = none /\ st.done = none /\ st.frame = 0
    BY <2>3
  <2> HIDE DEF st
  <2>6. SupOK(st)
    BY <2>2, <2>4, <2>5 DEF SupOK, Done
  <2>7. Coming(s) = {}
    BY <1>1 DEF Coming
  <2>8. InStep(st, Coming(s))
    BY <2>2, <2>5, <2>7 DEF InStep, Done, Increasing, Below
  <2>9. QED
    BY <2>6, <2>8 DEF st
<1>7. SupsOK /\ StepInv
  <2>1. sup = [s \in Sups |-> sup[s]]
    BY DEF Init
  <2>2. QED
    BY <1>6, <2>1 DEF SupsOK, StepInv
<1>8. QED
  BY <1>3, <1>4, <1>5, <1>7 DEF IInv

\* Events happen, and join the pool; if it is stopped they are unsafe.
LEMMA HappenKeeps ==
  ASSUME IInv, NEW new, NEW stopped, Fresh(new), Happen(new, stopped), list' = Longer(new),
         stopped = IF running THEN << >> ELSE new,
         members' \in Seq(entered), frame' \in 0..MaxFrame, frame <= frame',
         UNCHANGED <<entered, running, sent, waiting, overlapped, wire, enters, sup>>
  PROVE  IInv'
<1> USE DEF IInv
<1>1. Len(events) \in Nat /\ Len(new) \in Nat /\ DOMAIN events = 1..Len(events)
      /\ Len(<< >>) = 0
  BY DEF LogicOK, Fresh
<1>2. events' = events \o new
      /\ unsafe' = unsafe \cup (IF waiting = {} /\ running THEN {} ELSE New(new))
  <2>1. CASE waiting = {} /\ running
    <3>1. (Len(events) + (Len(new) - 0) + 1)..(Len(events) + Len(new)) = {}
      BY <1>1
    <3>2. Len(stopped) = 0
      BY <1>1, <2>1
    <3>3. QED
      BY <2>1, <3>1, <3>2 DEF Happen
  <2>2. CASE waiting = {} /\ ~running
    <3>1. Len(new) - Len(new) = 0 /\ Len(events) + 0 + 1 = Len(events) + 1
      BY <1>1
    <3>2. QED
      BY <2>2, <3>1 DEF Happen, New
  <2>3. CASE waiting # {}
    <3>1. Len(events) + 0 + 1 = Len(events) + 1
      BY <1>1
    <3>2. QED
      BY <2>3, <3>1 DEF Happen, New
  <2>4. running \in BOOLEAN
    BY DEF LogicOK
  <2>5. QED
    BY <2>1, <2>2, <2>3, <2>4
<1>3. /\ events' \in Seq(Happening)
      /\ DOMAIN events' = DOMAIN events \cup New(new)
      /\ \A i \in DOMAIN events : events'[i] = events[i]
      /\ \A i \in DOMAIN events' :
           /\ events'[i].frame <= frame'
           /\ events'[i].type \in {"on_client_msg", "leave_room"}
                => events'[i].user \in Users
      /\ \A i, j \in DOMAIN events' : i <= j => events'[i].frame <= events'[j].frame
  BY <1>2, EventsGrow
<1>4. /\ list' \in Seq(Nat) /\ Increasing(list')
      /\ ToSet(list') = ToSet(list) \cup New(new)
  BY LongerKeeps
<1>5. Sent' = Sent
  BY DEF Sent
<1>6. LogicOK'
  BY <1>2, <1>3, <1>4, <1>5 DEF LogicOK
<1>7. WireOK' /\ SupsOK'
  <2>1. SupsOK'
    BY <1>3, <1>5, SupsFrame
  <2>2. QED
    BY <2>1 DEF WireOK
<1>8. PoolInv'
  BY <1>2, <1>4, <1>5 DEF PoolInv
<1>9. OrderInv'
  BY <1>3, <1>4 DEF OrderInv
<1>10. OneListInv'
  <2>1. Below(Sent, New(new))
    <3>1. Sent \subseteq 1..Len(events)
      BY <1>1 DEF LogicOK
    <3>2. QED
      BY <1>1, <3>1 DEF Below, New
  <2>2. QED
    BY <1>4, <1>5, <2>1 DEF OneListInv, Below
<1>11. StepInv'
  BY <1>3, StepFrame
<1>12. OnlyUnsafeAreLost'
  <2>1. ASSUME NEW e \in DOMAIN events'
        PROVE  e \in Sent' \/ e \in unsafe' \/ (running' /\ e \in ToSet(list'))
    <3>1. CASE e \in DOMAIN events
      BY <1>2, <1>4, <1>5, <3>1 DEF OnlyUnsafeAreLost
    <3>2. CASE e \in New(new)
      BY <1>2, <1>4, <3>2
    <3>3. QED
      BY <1>3, <3>1, <3>2
  <2>2. QED
    BY <2>1 DEF OnlyUnsafeAreLost
<1>13. QED
  BY <1>6, <1>7, <1>8, <1>9, <1>10, <1>11, <1>12

LEMMA FreshConcat ==
  ASSUME NEW a, NEW b, Fresh(a), Fresh(b)
  PROVE  Fresh(a \o b) /\ Len(a \o b) = Len(a) + Len(b)
<1> DEFINE c == a \o b
<1>1. /\ a \in Seq(Happening) /\ b \in Seq(Happening)
      /\ Len(a) \in Nat /\ Len(b) \in Nat /\ DOMAIN a = 1..Len(a) /\ DOMAIN b = 1..Len(b)
  BY DEF Fresh
<1>2. /\ c \in Seq(Happening) /\ Len(c) = Len(a) + Len(b)
      /\ \A i \in 1..(Len(a) + Len(b)) : c[i] = IF i <= Len(a) THEN a[i] ELSE b[i - Len(a)]
  BY <1>1, ConcatProperties
<1> HIDE DEF c
<1>3. DOMAIN c = 1..(Len(a) + Len(b))
  BY <1>2
<1>4. ASSUME NEW i \in DOMAIN c
      PROVE  \/ \E k \in DOMAIN a : c[i] = a[k]
             \/ \E k \in DOMAIN b : c[i] = b[k]
  <2>1. CASE i <= Len(a)
    BY <1>1, <1>2, <1>3, <2>1
  <2>2. CASE ~(i <= Len(a))
    <3>1. i - Len(a) \in DOMAIN b /\ c[i] = b[i - Len(a)]
      BY <1>1, <1>2, <1>3, <2>2
    <3>2. QED
      BY <3>1
  <2>3. QED
    BY <2>1, <2>2
<1>5. Fresh(c)
  BY <1>2, <1>4 DEF Fresh
<1>6. QED
  BY <1>2, <1>5 DEF c

LEMMA FreshOne ==
  ASSUME LogicOK, NEW type \in Types, NEW user \in Users \cup {"all"},
         type \in {"on_client_msg", "leave_room"} => user \in Users
  PROVE  /\ Fresh(<<Event(type, user)>>)
         /\ \A a : Fresh(a) => Append(a, Event(type, user)) = a \o <<Event(type, user)>>
<1> DEFINE ev == Event(type, user)
<1>1. /\ ev \in Happening /\ ev.frame = frame /\ ev.type = type /\ ev.user = user
  BY EventSyncAssumption DEF Event, Happening, LogicOK
<1> HIDE DEF ev
<1>2. Fresh(<<ev>>)
  BY <1>1 DEF Fresh
<1>3. ASSUME NEW a, Fresh(a) PROVE Append(a, ev) = a \o <<ev>>
  BY <1>1, <1>3, AppendIsConcat DEF Fresh
<1>4. QED
  BY <1>2, <1>3 DEF ev

LEMMA FreshNone ==
  Fresh(<< >>) /\ Len(<< >>) = 0
<1>1. DOMAIN << >> = {} /\ << >> \in Seq(Happening) /\ Len(<< >>) = 0
  BY EmptySeq
<1>2. QED
  BY <1>1 DEF Fresh

LEMMA FreshLeaving ==
  ASSUME LogicOK
  PROVE  Fresh(Leaving(members))
<1> DEFINE o == LoggedOut(members)
<1>1. members \in Seq(Users)
  BY SeqMonotonic DEF LogicOK
<1>2. o \in Seq(Users)
  BY <1>1, LoggedOutOf
<1> HIDE DEF o
<1>3. DOMAIN o = 1..Len(o) /\ Len(o) \in Nat /\ \A i \in DOMAIN o : o[i] \in Users
  BY <1>2
<1>4. \A i \in DOMAIN o : /\ Event("leave_room", o[i]) \in Happening
                          /\ Event("leave_room", o[i]).frame = frame
                          /\ Event("leave_room", o[i]).user \in Users
  BY <1>3, EventSyncAssumption DEF Event, Happening, Types, LogicOK
<1> DEFINE a == [i \in DOMAIN o |-> Event("leave_room", o[i])]
<1>5. a \in Seq(Happening) /\ DOMAIN a = DOMAIN o
      /\ \A i \in DOMAIN a : a[i].frame = frame /\ a[i].user \in Users
  BY <1>3, <1>4
<1>6. Leaving(members) = a
  BY DEF Leaving, o
<1> HIDE DEF a
<1>7. QED
  BY <1>5, <1>6 DEF Fresh

\* The room closes.
LEMMA ClosesKeeps ==
  ASSUME IInv, running, NEW before, NEW after, Fresh(before), Fresh(after),
         Closes(before, after), frame' \in 0..MaxFrame, frame <= frame',
         UNCHANGED <<entered, waiting, enters, sup>>
  PROVE  IInv'
<1> USE DEF IInv
<1> DEFINE sending == Append(before, Event("engine_close", "all"))
           new == sending \o after
           l == Longer(sending)
<1>1. Fresh(sending)
  <2> DEFINE c == <<Event("engine_close", "all")>>
  <2>1. Fresh(c) /\ sending = before \o c
    <3>1. "engine_close" \in Types /\ "all" \in Users \cup {"all"}
          /\ "engine_close" \notin {"on_client_msg", "leave_room"}
      BY DEF Types
    <3>2. QED
      BY <3>1, FreshOne
  <2> HIDE DEF c
  <2>2. QED
    BY <2>1, FreshConcat
<1>2. Fresh(new) /\ Len(new) = Len(sending) + Len(after)
  BY <1>1, FreshConcat
<1>3. Happen(new, after) /\ list' = Longer(new) /\ Send(l)
      /\ running' = FALSE /\ members' = << >>
  BY DEF Closes, SendsRest
<1> HIDE DEF sending, new, l
<1>4. /\ Len(events) \in Nat /\ Len(new) \in Nat /\ Len(sending) \in Nat /\ Len(after) \in Nat
      /\ DOMAIN events = 1..Len(events)
  BY <1>1, <1>2 DEF LogicOK, Fresh
<1>5. /\ events' = events \o new /\ unsafe \subseteq unsafe'
      /\ unsafe' \subseteq unsafe \cup New(new)
      /\ New(new) \subseteq unsafe' \cup (IF waiting = {} THEN New(sending) ELSE {})
      /\ New(sending) \subseteq New(new)
  <2>1. New(sending) \subseteq New(new)
    BY <1>2, <1>4 DEF New
  <2>2. CASE waiting = {}
    <3>1. unsafe' = unsafe \cup (Len(events) + Len(sending) + 1)..(Len(events) + Len(new))
      <4>1. Len(new) - Len(after) = Len(sending)
        BY <1>2, <1>4
      <4>2. QED
        BY <1>3, <2>2, <4>1 DEF Happen
    <3>2. /\ (Len(events) + Len(sending) + 1)..(Len(events) + Len(new)) \subseteq New(new)
          /\ New(new) \subseteq New(sending)
               \cup (Len(events) + Len(sending) + 1)..(Len(events) + Len(new))
      BY <1>2, <1>4 DEF New
    <3>3. events' = events \o new
      BY <1>3 DEF Happen
    <3>4. QED
      BY <2>1, <2>2, <3>1, <3>2, <3>3
  <2>3. CASE waiting # {}
    <3>1. unsafe' = unsafe \cup New(new)
      <4>1. Len(events) + 0 + 1 = Len(events) + 1
        BY <1>4
      <4>2. QED
        BY <1>3, <2>3, <4>1 DEF Happen, New
    <3>2. events' = events \o new
      BY <1>3 DEF Happen
    <3>3. QED
      BY <2>1, <2>3, <3>1, <3>2
  <2>4. QED
    BY <2>2, <2>3
<1>6. /\ events' \in Seq(Happening)
      /\ DOMAIN events' = DOMAIN events \cup New(new)
      /\ \A i \in DOMAIN events : events'[i] = events[i]
      /\ \A i \in DOMAIN events' :
           /\ events'[i].frame <= frame'
           /\ events'[i].type \in {"on_client_msg", "leave_room"}
                => events'[i].user \in Users
      /\ \A i, j \in DOMAIN events' : i <= j => events'[i].frame <= events'[j].frame
  BY <1>2, <1>5, EventsGrow
<1>7. /\ list' \in Seq(Nat) /\ Increasing(list')
      /\ ToSet(list') = ToSet(list) \cup New(new)
  BY <1>2, <1>3, LongerKeeps
<1>8. l \in Seq(Nat) /\ Increasing(l) /\ ToSet(l) = ToSet(list) \cup New(sending)
  BY <1>1, LongerKeeps DEF l
<1>9. /\ sent' \in Seq(Seq(Nat)) /\ Len(sent') = Len(sent) + 1
      /\ DOMAIN sent' = DOMAIN sent \cup {Len(sent) + 1}
      /\ Len(sent) + 1 \notin DOMAIN sent
      /\ \A c \in DOMAIN sent : sent'[c] = sent[c]
      /\ sent'[Len(sent) + 1] = l
      /\ Sent' = Sent \cup ToSet(l)
      /\ wire' = wire \cup ({Len(sent) + 1} \X Sups)
      /\ overlapped' = (overlapped \/ wire # {} \/ waiting # {})
  BY <1>3, <1>8, SendSent DEF Send
<1>10. LogicOK'
  <2>1. members' \in Seq(entered')
    BY <1>3, EmptySeq
  <2>2. Sent' \subseteq DOMAIN events' /\ ToSet(list') \subseteq DOMAIN events'
        /\ unsafe' \subseteq DOMAIN events'
    BY <1>5, <1>6, <1>7, <1>8, <1>9 DEF LogicOK
  <2>3. overlapped' \in BOOLEAN /\ running' \in BOOLEAN
    BY <1>3, <1>9
  <2>4. QED
    BY <1>6, <1>7, <1>9, <2>1, <2>2, <2>3 DEF LogicOK
<1>11. WireOK'
  BY <1>9 DEF WireOK
<1>12. SupsOK'
  BY <1>6, <1>9, SupsFrame
<1>13. PoolInv'
  BY <1>5, <1>7, <1>9 DEF PoolInv
<1>14. OrderInv'
  BY <1>6, <1>7, <1>8, <1>9 DEF OrderInv
<1>15. OneListInv'
  <2>1. ASSUME ~overlapped' PROVE waiting' \cup wire' \subseteq {Len(sent')} \X Sups
    BY <1>9, <2>1
  <2>2. QED
    BY <1>3, <2>1 DEF OneListInv
<1>16. StepInv'
  <2>1. DOMAIN events \cup New(sending) \subseteq DOMAIN events'
    BY <1>5, <1>6
  <2>2. \A i \in DOMAIN events' : events'[i].frame \in Nat
    <3>1. \A i \in DOMAIN events' : events'[i] \in Happening
      BY <1>6
    <3>2. QED
      BY <3>1 DEF Happening
  <2>3. QED
    BY <1>1, <1>3, <1>6, <1>8, <2>1, <2>2, SendInStep
<1>17. OnlyUnsafeAreLost'
  <2>1. ASSUME NEW e \in DOMAIN events' PROVE e \in Sent' \/ e \in unsafe'
    <3>1. CASE e \in DOMAIN events
      BY <1>5, <1>8, <1>9, <3>1 DEF OnlyUnsafeAreLost
    <3>2. CASE e \in New(new)
      BY <1>5, <1>8, <1>9, <3>2
    <3>3. QED
      BY <1>6, <3>1, <3>2
  <2>2. QED
    BY <2>1 DEF OnlyUnsafeAreLost
<1>18. QED
  BY <1>10, <1>11, <1>12, <1>13, <1>14, <1>15, <1>16, <1>17

LEMMA FreshEvents ==
  ASSUME LogicOK
  PROVE  /\ \A u \in Users : /\ Fresh(<<Event("on_client_msg", u)>>)
                             /\ Fresh(<<Event("leave_room", u)>>)
         /\ Fresh(<<Event("onSupUpdate", "all")>>)
<1>1. {"on_client_msg", "leave_room", "onSupUpdate"} \subseteq Types
  BY DEF Types
<1>2. "onSupUpdate" \notin {"on_client_msg", "leave_room"}
  OBVIOUS
<1>3. QED
  BY <1>1, <1>2, FreshOne

LEMMA FreshSecondClose ==
  ASSUME LogicOK
  PROVE  Fresh(SecondClose)
<1>1. "engine_close" \in Types /\ "engine_close" \notin {"on_client_msg", "leave_room"}
  BY DEF Types
<1>2. Fresh(<<Event("engine_close", "all")>>)
  BY <1>1, FreshOne
<1>3. QED
  BY <1>2, FreshNone DEF SecondClose

LEMMA MemberIsUser ==
  ASSUME LogicOK
  PROVE  /\ ToSet(members) \subseteq Users /\ members \in Seq(entered)
         /\ frame \in Nat /\ frame \in 0..MaxFrame
BY InToSet, EventSyncAssumption DEF LogicOK

LEMMA EventStepsKeep ==
  ASSUME IInv, NEW u \in Users,
         ClientMsg(u) \/ LeaveRoom(u) \/ ClientMsgCloses(u) \/ StartCloses \/ UpdateCloses
  PROVE  IInv'
<1>1. LogicOK
  BY DEF IInv
<1>2. CASE ClientMsg(u)
  <2> DEFINE new == <<Event("on_client_msg", u)>>
  <2>1. /\ running /\ Happen(new, << >>) /\ list' = Longer(new)
        /\ UNCHANGED <<members, entered, frame, running, sent, waiting, overlapped, wire,
                       enters, sup>>
    BY <1>2 DEF ClientMsg
  <2>2. Fresh(new)
    BY <1>1, FreshEvents
  <2> HIDE DEF new
  <2>3. members' \in Seq(entered) /\ frame' \in 0..MaxFrame /\ frame <= frame'
    BY <1>1, <2>1, MemberIsUser
  <2>4. QED
    BY <2>1, <2>2, <2>3, HappenKeeps
<1>3. CASE LeaveRoom(u)
  <2> DEFINE new == <<Event("leave_room", u)>>
  <2>1. Fresh(new) /\ Fresh(<< >>)
    BY <1>1, FreshEvents, FreshNone
  <2>2. running /\ UNCHANGED <<entered, frame, waiting, enters, sup>>
    BY <1>3 DEF LeaveRoom
  <2>3. frame' \in 0..MaxFrame /\ frame <= frame'
    BY <1>1, <2>2, MemberIsUser
  <2>4. CASE Len(members) = 1
    <3>1. Closes(new, << >>)
      BY <1>3, <2>4 DEF LeaveRoom
    <3> HIDE DEF new
    <3>2. QED
      BY <2>1, <2>2, <2>3, <3>1, ClosesKeeps
  <2>5. CASE Len(members) # 1
    <3>1. /\ Happen(new, << >>) /\ list' = Longer(new)
          /\ members' = RemoveFirst(members, u)
          /\ UNCHANGED <<running, sent, overlapped, wire>>
      BY <1>3, <2>5 DEF LeaveRoom
    <3>2. members' \in Seq(entered)
      BY <1>1, <3>1, MemberIsUser, RemoveFirstKeeps
    <3> HIDE DEF new
    <3>3. QED
      BY <2>1, <2>2, <2>3, <3>1, <3>2, HappenKeeps
  <2>6. QED
    BY <2>4, <2>5
<1>4. CASE ClientMsgCloses(u)
  <2> DEFINE after == Append(SecondClose, Event("on_client_msg", u))
             before == Leaving(members)
  <2>1. /\ running /\ Closes(before, after)
        /\ UNCHANGED <<entered, frame, waiting, enters, sup>>
    BY <1>4 DEF ClientMsgCloses
  <2>2. Fresh(before) /\ Fresh(after)
    <3>1. "on_client_msg" \in Types
      BY DEF Types
    <3>2. after = SecondClose \o <<Event("on_client_msg", u)>>
      BY <1>1, <3>1, FreshOne, FreshSecondClose
    <3>3. Fresh(SecondClose \o <<Event("on_client_msg", u)>>)
      BY <1>1, FreshSecondClose, FreshEvents, FreshConcat
    <3>4. QED
      BY <1>1, <3>2, <3>3, FreshLeaving
  <2>3. frame' \in 0..MaxFrame /\ frame <= frame'
    BY <1>1, <2>1, MemberIsUser
  <2> HIDE DEF before, after
  <2>4. QED
    BY <2>1, <2>2, <2>3, ClosesKeeps
<1>5. CASE StartCloses
  <2> DEFINE before == Leaving(members)
  <2>1. /\ running /\ Closes(before, SecondClose)
        /\ UNCHANGED <<entered, frame, waiting, enters, sup>>
    BY <1>5 DEF StartCloses
  <2>2. Fresh(before) /\ Fresh(SecondClose)
    BY <1>1, FreshLeaving, FreshSecondClose
  <2>3. frame' \in 0..MaxFrame /\ frame <= frame'
    BY <1>1, <2>1, MemberIsUser
  <2> HIDE DEF before
  <2>4. QED
    BY <2>1, <2>2, <2>3, ClosesKeeps
<1>6. CASE UpdateCloses
  <2> DEFINE before == <<Event("onSupUpdate", "all")>> \o Leaving(members)
  <2>1. /\ running /\ Closes(before, SecondClose) /\ frame < MaxFrame /\ frame' = frame + 1
        /\ UNCHANGED <<entered, waiting, enters, sup>>
    BY <1>6 DEF UpdateCloses
  <2>2. Fresh(before) /\ Fresh(SecondClose)
    BY <1>1, FreshLeaving, FreshSecondClose, FreshEvents, FreshConcat
  <2>3. frame' \in 0..MaxFrame /\ frame <= frame'
    BY <1>1, <2>1, MemberIsUser, EventSyncAssumption
  <2> HIDE DEF before
  <2>4. QED
    BY <2>1, <2>2, <2>3, ClosesKeeps
<1>7. QED
  BY <1>2, <1>3, <1>4, <1>5, <1>6

LEMMA LoopKeeps ==
  ASSUME IInv, NEW updates \in BOOLEAN, Loop(updates)
  PROVE  IInv'
<1> DEFINE new == UpdateEvents(updates)
           stopped == IF running THEN << >> ELSE new
<1>1. LogicOK
  BY DEF IInv
<1>2. /\ frame < MaxFrame /\ frame' = frame + 1
      /\ Happen(new, stopped) /\ list' = Longer(new)
      /\ UNCHANGED <<members, entered, running, sent, waiting, overlapped, wire, enters,
                     sup>>
  BY DEF Loop
<1>3. Fresh(new)
  BY <1>1, FreshEvents, FreshNone DEF UpdateEvents
<1>4. frame' \in 0..MaxFrame /\ frame <= frame' /\ members' \in Seq(entered)
  BY <1>1, <1>2, MemberIsUser, EventSyncAssumption
<1> HIDE DEF new
<1>5. QED
  BY <1>2, <1>3, <1>4, HappenKeeps

\* A player enters: nothing but the members and the messages of sys_enter.
LEMMA EnterRoomKeeps ==
  ASSUME IInv, NEW u \in Users, EnterRoom(u)
  PROVE  IInv'
<1> USE DEF IInv
<1>1. /\ members' = Append(members, u) /\ entered' = entered \cup {u}
      /\ enters' = enters \cup ({u} \X Sups)
      /\ UNCHANGED <<frame, running, events, list, sent, waiting, unsafe, overlapped, wire,
                     sup>>
  BY DEF EnterRoom
<1>2. Sent' = Sent
  BY <1>1 DEF Sent
<1>3. members' \in Seq(entered')
  <2>1. members \in Seq(entered') /\ u \in entered'
    BY <1>1, SeqMonotonic DEF LogicOK
  <2>2. QED
    BY <1>1, <2>1, AppendProperties
<1>4. LogicOK'
  BY <1>1, <1>2, <1>3 DEF LogicOK
<1>5. WireOK'
  BY <1>1 DEF WireOK
<1>6. SupsOK'
  BY <1>1, <1>2, SupsFrame
<1>7. StepInv'
  BY <1>1, StepFrame
<1>8. PoolInv' /\ OrderInv' /\ OneListInv' /\ OnlyUnsafeAreLost'
  BY <1>1, <1>2 DEF PoolInv, OrderInv, OneListInv, OnlyUnsafeAreLost
<1>9. QED
  BY <1>4, <1>5, <1>6, <1>7, <1>8

LEMMA TickKeeps ==
  ASSUME IInv, Tick
  PROVE  IInv'
<1> USE DEF IInv
<1>1. /\ running /\ Send(list) /\ waiting' = waiting \cup ({Len(sent) + 1} \X Sups)
      /\ UNCHANGED <<members, entered, frame, running, events, list, unsafe, enters, sup>>
  BY DEF Tick
<1>2. list \in Seq(Nat) /\ Increasing(list)
  BY DEF LogicOK, OrderInv
<1>3. /\ sent' \in Seq(Seq(Nat)) /\ Len(sent') = Len(sent) + 1
      /\ DOMAIN sent' = DOMAIN sent \cup {Len(sent) + 1}
      /\ Len(sent) + 1 \notin DOMAIN sent
      /\ \A c \in DOMAIN sent : sent'[c] = sent[c]
      /\ sent'[Len(sent) + 1] = list
      /\ Sent' = Sent \cup ToSet(list)
      /\ wire' = wire \cup ({Len(sent) + 1} \X Sups)
      /\ overlapped' = (overlapped \/ wire # {} \/ waiting # {})
  BY <1>1, <1>2, SendSent DEF Send
<1>4. LogicOK' /\ WireOK'
  <2>1. overlapped' \in BOOLEAN
    BY <1>3
  <2>2. LogicOK'
    BY <1>1, <1>3, <2>1 DEF LogicOK
  <2>3. WireOK'
    BY <1>1, <1>3 DEF WireOK
  <2>4. QED
    BY <2>2, <2>3
<1>5. SupsOK'
  BY <1>1, <1>3, SupsFrame
<1>6. PoolInv' /\ OnlyUnsafeAreLost'
  BY <1>1, <1>3 DEF PoolInv, OnlyUnsafeAreLost
<1>7. OrderInv'
  BY <1>1, <1>2, <1>3 DEF OrderInv
<1>8. OneListInv'
  <2>1. ASSUME ~overlapped' PROVE waiting' \cup wire' \subseteq {Len(sent')} \X Sups
    BY <1>1, <1>3, <2>1
  <2>2. waiting' = {} => Sups = {}
    <3>1. \A s \in Sups : <<Len(sent) + 1, s>> \in waiting'
      BY <1>1
    <3>2. QED
      BY <3>1
  <2>3. QED
    BY <2>1, <2>2 DEF OneListInv
<1>9. StepInv'
  <2>1. Fresh(<< >>) /\ New(<< >>) = {}
    <3>1. Len(events) \in Nat /\ Len(<< >>) = 0
      BY FreshNone DEF LogicOK
    <3>2. QED
      BY <3>1, FreshNone DEF New
  <2> DEFINE none == << >>
  <2> HIDE DEF none
  <2>2. Fresh(none) /\ ToSet(list) = ToSet(list) \cup New(none)
        /\ DOMAIN events \cup New(none) \subseteq DOMAIN events'
    BY <1>1, <2>1 DEF none
  <2>3. /\ \A e \in DOMAIN events : events'[e] = events[e]
        /\ \A i, j \in DOMAIN events' : i <= j => events'[i].frame <= events'[j].frame
        /\ \A i \in DOMAIN events' : events'[i].frame \in Nat
    <3>1. \A i \in DOMAIN events : events[i] \in Happening
      BY DEF LogicOK
    <3>2. QED
      BY <1>1, <3>1 DEF OrderInv, Happening
  <2>4. QED
    BY <1>1, <1>2, <2>2, <2>3, SendInStep
<1>10. QED
  BY <1>4, <1>5, <1>6, <1>7, <1>8, <1>9

LEMMA SettleKeeps ==
  ASSUME IInv, NEW c \in DOMAIN sent, NEW s \in Sups, Settle(c, s)
  PROVE  IInv'
<1> USE DEF IInv
<1>1. /\ <<c, s>> \in waiting /\ waiting' = waiting \ {<<c, s>>}
      /\ list' = list \/ list' = << >>
      /\ (\A t \in Sups \ {s} : <<c, t>> \notin waiting) => list' = << >>
      /\ UNCHANGED <<members, entered, frame, running, events, sent, unsafe, overlapped,
                     wire, enters, sup>>
  BY DEF Settle, Emptied
<1>2. Sent' = Sent
  BY <1>1 DEF Sent
<1>3. /\ list' \in Seq(Nat) /\ ToSet(list') \subseteq ToSet(list) /\ Increasing(list')
  <2>1. CASE list' = list
    BY <2>1 DEF LogicOK, OrderInv
  <2>2. CASE list' = << >>
    <3>1. << >> \in Seq(Nat) /\ ToSet(<< >>) = {} /\ DOMAIN << >> = {}
      BY EmptySeq DEF ToSet
    <3>2. QED
      BY <2>2, <3>1 DEF Increasing
  <2>3. QED
    BY <1>1, <2>1, <2>2
<1>4. LogicOK' /\ WireOK'
  <2>1. LogicOK'
    BY <1>1, <1>2, <1>3 DEF LogicOK
  <2>2. WireOK'
    BY <1>1 DEF WireOK
  <2>3. QED
    BY <2>1, <2>2
<1>5. SupsOK'
  BY <1>1, <1>2, SupsFrame
<1>6. StepInv'
  BY <1>1, StepFrame
<1>7. PoolInv' /\ OnlyUnsafeAreLost'
  BY <1>1, <1>2, <1>3 DEF PoolInv, OnlyUnsafeAreLost
<1>8. OrderInv'
  BY <1>1, <1>3 DEF OrderInv
<1>9. OneListInv'
  <2>1. ASSUME waiting' = {} PROVE ToSet(list') = {}
    <3>1. \A t \in Sups \ {s} : <<c, t>> \notin waiting
      <4>1. waiting \subseteq {<<c, s>>}
        BY <1>1, <2>1
      <4>2. QED
        BY <4>1
    <3>2. list' = << >>
      BY <1>1, <3>1
    <3>3. QED
      BY <3>2 DEF ToSet
  <2>2. ASSUME ~overlapped' PROVE waiting' \cup wire' \subseteq {Len(sent')} \X Sups
    BY <1>1, <2>2 DEF OneListInv
  <2>3. waiting' = {} => Below(Sent', ToSet(list'))
    BY <2>1 DEF Below
  <2>4. QED
    BY <2>2, <2>3 DEF OneListInv
<1>10. QED
  BY <1>4, <1>5, <1>6, <1>7, <1>8, <1>9

-----------------------------------------------------------------------------
(* The network's and the supervisors' steps.                               *)

\* A step of a supervisor, or of the network, that leaves the logic node alone.
LEMMA LogicAlone ==
  ASSUME IInv, UNCHANGED logicVars, wire' \subseteq wire, enters' \subseteq enters,
         SupsOK', StepInv'
  PROVE  IInv'
<1>1. /\ UNCHANGED <<members, entered, frame, running, events, list, sent, waiting, unsafe,
                     overlapped>>
      /\ Sent' = Sent
  BY DEF logicVars, Sent
<1>2. LogicOK' /\ WireOK'
  BY <1>1 DEF IInv, LogicOK, WireOK
<1>3. PoolInv' /\ OrderInv' /\ OneListInv' /\ OnlyUnsafeAreLost'
  BY <1>1 DEF IInv, PoolInv, OrderInv, OneListInv, OnlyUnsafeAreLost
<1>4. QED
  BY <1>2, <1>3 DEF IInv

LEMMA DeliverKeeps ==
  ASSUME IInv, NEW c \in DOMAIN sent, NEW s \in Sups, Deliver(c, s)
  PROVE  IInv'
<1> USE DEF IInv
<1> DEFINE st == sup[s]
           l == sent[c]
           x == IF st.room = 0 THEN st ELSE ReceiveAll(st, l)
<1>1. /\ <<c, s>> \in wire /\ wire' = wire \ {<<c, s>>} /\ enters' = enters
      /\ UNCHANGED logicVars
  BY DEF Deliver
<1>2. sup' = [sup EXCEPT ![s] = x]
  BY DEF Deliver
<1>3. sup = [r \in Sups |-> sup[r]] /\ SupOK(st) /\ st \in SupStates
  BY DEF SupsOK, SupStates, SupOK
<1>4. l \in Seq(Nat) /\ ToSet(l) \subseteq Sent /\ Increasing(l)
  BY DEF LogicOK, Sent, OrderInv
<1> HIDE DEF st, l
<1>5. ReceiveAll(st, l) \in SupStates
  BY <1>3, <1>4, ReceiveAllKeeps
<1>6. SupOK(x)
  BY <1>3, <1>5 DEF SupStates
<1>7. SupsOK'
  <2> HIDE DEF x
  <2>1. QED
    BY <1>1, <1>2, <1>6, SupsChange
<1>8. ASSUME ~overlapped PROVE InStep(x, Coming(s)')
  <2>1. wire \subseteq {Len(sent)} \X Sups
    BY <1>8 DEF OneListInv
  <2>2. c = Len(sent) /\ \A d : <<d, s>> \in wire => d = c
    BY <1>1, <2>1
  <2>3. sent' = sent
    BY <1>1 DEF logicVars
  <2>4. Coming(s)' = {}
    <3>1. {d \in DOMAIN sent : <<d, s>> \in wire'} = {}
      BY <1>1, <2>2
    <3>2. QED
      BY <2>3, <3>1 DEF Coming
  <2>5. Coming(s) = ToSet(l)
    <3>1. {d \in DOMAIN sent : <<d, s>> \in wire} = {c}
      BY <1>1, <2>2
    <3>2. Coming(s) = UNION {ToSet(sent[d]) : d \in {c}}
      BY <3>1, Zenon DEF Coming
    <3>3. QED
      BY <3>2 DEF l
  <2>6. InStep(st, ToSet(l))
    BY <1>8, <2>5 DEF StepInv, st
  <2>7. InStep(ReceiveAll(st, l), {})
    BY <1>3, <1>4, <2>6, ReceiveAllKeeps
  <2>8. InStep(st, {})
    BY <2>6, InStepSame
  <2>9. QED
    BY <2>4, <2>7, <2>8
<1>9. StepInv'
  <2> HIDE DEF x
  <2>1. wire' \subseteq wire
    BY <1>1
  <2>2. QED
    BY <1>1, <1>2, <1>3, <1>8, <2>1, StepChange
<1>10. QED
  <2>1. wire' \subseteq wire /\ enters' \subseteq enters
    BY <1>1
  <2>2. QED
    BY <1>1, <1>7, <1>9, <2>1, LogicAlone

LEMMA LossesKeep ==
  ASSUME IInv, UNCHANGED <<logicVars, sup>>, wire' \subseteq wire, enters' \subseteq enters
  PROVE  IInv'
<1>1. /\ entered' = entered /\ sent' = sent /\ overlapped' = overlapped /\ events' = events
      /\ Sent' = Sent
  BY DEF logicVars, Sent
<1>2. SupsOK'
  BY <1>1, SupsFrame DEF IInv
<1>3. StepInv'
  BY <1>1, StepFrame DEF IInv
<1>4. QED
  BY <1>2, <1>3, LogicAlone

\* A supervisor whose queue and past stay, or that starts afresh with an empty queue.
LEMMA SupStepKeeps ==
  ASSUME IInv, NEW s \in Sups, NEW x, SupOK(x), sup' = [sup EXCEPT ![s] = x],
         x.done = sup[s].done,
         \/ x.queue = sup[s].queue /\ x.frame = sup[s].frame
         \/ x.queue = << >> /\ x.frame = 0,
         UNCHANGED logicVars, wire' = wire, enters' \subseteq enters
  PROVE  IInv'
<1> USE DEF IInv
<1>1. SupsOK'
  BY SupsChange
<1>2. Coming(s)' = Coming(s)
  BY DEF Coming, logicVars
<1>3. ASSUME ~overlapped PROVE InStep(x, Coming(s))
  <2> DEFINE st == sup[s]
  <2>1. InStep(st, Coming(s))
    BY <1>3 DEF StepInv
  <2>2. CASE x.queue = st.queue /\ x.frame = st.frame
    BY <2>1, <2>2, InStepSame
  <2>3. CASE x.queue = << >> /\ x.frame = 0
    <3>1. ToSet(x.queue) = {} /\ Increasing(x.queue)
      <4>1. DOMAIN << >> = {}
        OBVIOUS
      <4>2. QED
        BY <2>3, <4>1 DEF ToSet, Increasing
    <3>2. Done(x) = Done(st)
      BY DEF Done
    <3>3. Below(Done(x), ToSet(x.queue)) /\ Below(Done(x) \cup ToSet(x.queue), Coming(s))
      BY <2>1, <3>1, <3>2 DEF InStep, Below
    <3>4. \A e \in ToSet(x.queue) \cup Coming(s) : x.frame <= events[e].frame
      <4>1. \A e \in Coming(s) : events[e].frame \in Nat
        BY ComingSent, SentEvent
      <4>2. QED
        BY <2>3, <3>1, <4>1
    <3>5. QED
      BY <2>1, <3>1, <3>3, <3>4 DEF InStep
  <2>4. QED
    BY <2>2, <2>3
<1>4. StepInv'
  <2>1. sup = [r \in Sups |-> sup[r]]
    BY DEF SupsOK
  <2>2. ~overlapped => InStep(x, Coming(s)')
    BY <1>2, <1>3
  <2>3. wire' \subseteq wire
    OBVIOUS
  <2>4. QED
    BY <2>1, <2>2, <2>3, StepChange
<1>5. wire' \subseteq wire
  OBVIOUS
<1>6. QED
  BY <1>1, <1>4, <1>5, LogicAlone

LEMMA ArrivesOK ==
  ASSUME NEW st, SupOK(st), NEW u \in Users, u \in entered
  PROVE  /\ SupOK(Arrives(st, u)) /\ Arrives(st, u).done = st.done
         /\ \/ Arrives(st, u).queue = st.queue /\ Arrives(st, u).frame = st.frame
            \/ Arrives(st, u).queue = << >> /\ Arrives(st, u).frame = 0
<1> DEFINE none == << >>
           new == [st EXCEPT !.made = st.made + 1, !.room = st.made + 1, !.members = none,
                             !.queue = none, !.frame = 0]
           in == IF st.room # 0 THEN st ELSE new
           x == [in EXCEPT !.users = [in.users EXCEPT ![u] = "init"],
                           !.loading = [in.loading EXCEPT ![u] = in.room]]
<1>1. st \in SupState /\ st.made \in Nat /\ st.room \in Nat
  BY DEF SupOK, SupState
<1>2. none \in Seq(entered) /\ none \in Seq(Nat) /\ ToSet(none) = {}
  BY EmptySeq DEF ToSet
<1> HIDE DEF none
<1>3. /\ new \in SupState /\ new.done = st.done /\ new.queue = none /\ new.frame = 0
      /\ new.made = st.made + 1 /\ new.room = st.made + 1 /\ new.loading = st.loading
  <2>1. /\ new.done = st.done /\ new.queue = none /\ new.frame = 0
        /\ new.made = st.made + 1 /\ new.room = st.made + 1 /\ new.loading = st.loading
    BY <1>1 DEF SupState
  <2> DEFINE mm == none
             qq == none
             k == st.made + 1
  <2>2. mm \in Seq(entered) /\ qq \in Seq(Nat) /\ k \in Nat
    BY <1>1, <1>2
  <2> HIDE DEF mm, qq, k
  <2>3. [st EXCEPT !.made = k, !.room = k, !.members = mm, !.queue = qq, !.frame = 0]
          \in SupState
    BY <1>1, <2>2 DEF SupState
  <2>4. QED
    BY <2>1, <2>3 DEF mm, qq, k
<1> HIDE DEF new
<1>4. SupOK(in)
  <2>1. \A v \in Users : st.loading[v] \in Nat
    BY <1>1 DEF SupState
  <2>2. SupOK(new)
    BY <1>1, <1>2, <1>3, <2>1 DEF SupOK, Done
  <2>3. QED
    BY <2>2
<1>5. /\ in.done = st.done /\ in.room \in Nat
      /\ \/ in.queue = st.queue /\ in.frame = st.frame
         \/ in.queue = none /\ in.frame = 0
  BY <1>1, <1>3
<1>6. Arrives(st, u) = x
  <2>1. in = IF st.room # 0 THEN st
             ELSE [st EXCEPT !.made = @ + 1, !.room = st.made + 1, !.members = << >>,
                             !.queue = << >>, !.frame = 0]
    BY <1>1 DEF new, none, SupState
  <2>2. in \in SupState
    BY <1>4 DEF SupOK
  <2> HIDE DEF in
  <2>3. x = [in EXCEPT !.users[u] = "init", !.loading[u] = in.room]
    BY <2>2 DEF SupState
  <2>4. QED
    BY <2>1, <2>3 DEF Arrives
<1> HIDE DEF in
<1>7. in \in SupState
  BY <1>4 DEF SupOK
<1>8. /\ x \in SupState /\ x.done = in.done /\ x.queue = in.queue /\ x.frame = in.frame
      /\ x.made = in.made /\ x.room = in.room
      /\ x.loading = [in.loading EXCEPT ![u] = in.room]
  BY <1>5, <1>7 DEF SupState
<1>9. in.loading \in [Users -> Nat]
  BY <1>7 DEF SupState
<1> HIDE DEF x
<1>10. \A v \in Users : x.loading[v] <= x.made /\ (x.loading[v] # 0 => v \in entered)
  BY <1>4, <1>8, <1>9 DEF SupOK
<1>11. SupOK(x)
  BY <1>4, <1>8, <1>10 DEF SupOK, Done
<1>12. QED
  BY <1>5, <1>6, <1>8, <1>11 DEF none

LEMMA EnterArrivesKeeps ==
  ASSUME IInv, NEW u \in Users, NEW s \in Sups, EnterArrives(u, s)
  PROVE  IInv'
<1>1. /\ <<u, s>> \in enters /\ enters' = enters \ {<<u, s>>} /\ wire' = wire
      /\ sup' = [sup EXCEPT ![s] = Arrives(sup[s], u)] /\ UNCHANGED logicVars
  BY DEF EnterArrives
<1>2. u \in entered /\ SupOK(sup[s])
  BY <1>1 DEF IInv, WireOK, SupsOK
<1>3. enters' \subseteq enters
  BY <1>1
<1>4. QED
  BY <1>1, <1>2, <1>3, ArrivesOK, SupStepKeeps

LEMMA LoadEndsKeeps ==
  ASSUME IInv, NEW u \in Users, NEW s \in Sups, Loaded(u, s) \/ LoadFails(u, s)
  PROVE  IInv'
<1> DEFINE st == sup[s]
           ld == [st.loading EXCEPT ![u] = 0]
           us == [st.users EXCEPT ![u] = "in"]
           mb == IF st.loading[u] = st.room THEN Append(st.members, u) ELSE st.members
           x == [st EXCEPT !.loading = ld, !.users = us, !.members = mb]
           y == [st EXCEPT !.loading = ld]
<1>1. /\ sup = [r \in Sups |-> sup[r]] /\ SupOK(st) /\ st \in SupState
      /\ st.loading \in [Users -> Nat] /\ st.users \in [Users -> {"none", "init", "in"}]
      /\ st.members \in Seq(entered) /\ st.made \in Nat
  BY DEF IInv, SupsOK, SupOK, SupState
<1>2. /\ st.loading[u] # 0 /\ UNCHANGED <<logicVars, wire, enters>>
      /\ sup' = [sup EXCEPT ![s] = x] \/ sup' = [sup EXCEPT ![s] = y]
  <2>1. CASE Loaded(u, s)
    <3>1. sup' = [sup EXCEPT ![s].loading[u] = 0, ![s].users[u] = "in",
                             ![s].members = IF sup[s].loading[u] = sup[s].room
                                            THEN Append(@, u) ELSE @]
      BY <2>1 DEF Loaded
    <3>2. sup' = [sup EXCEPT ![s] = x]
      BY <1>1, <3>1 DEF SupState
    <3>3. QED
      BY <2>1, <3>2 DEF Loaded
  <2>2. CASE LoadFails(u, s)
    <3>1. sup' = [sup EXCEPT ![s] = y]
      BY <1>1, <2>2 DEF LoadFails, SupState
    <3>2. QED
      BY <2>2, <3>1 DEF LoadFails
  <2>3. QED
    BY <2>1, <2>2
<1>3. u \in entered
  BY <1>1, <1>2 DEF SupOK
<1>4. mb \in Seq(entered) /\ ld \in [Users -> Nat] /\ us \in [Users -> {"none", "init", "in"}]
  BY <1>1, <1>3, AppendProperties
<1>5. \A v \in Users : ld[v] <= st.made /\ (ld[v] # 0 => v \in entered)
  BY <1>1 DEF SupOK
<1> HIDE DEF mb, ld, us
<1>6. /\ x \in SupState /\ y \in SupState
      /\ \A z \in {x, y} : /\ z.done = st.done /\ z.queue = st.queue /\ z.frame = st.frame
                           /\ z.made = st.made /\ z.room = st.room /\ z.loading = ld
  BY <1>1, <1>4 DEF SupState
<1> HIDE DEF x, y
<1>7. SupOK(x) /\ SupOK(y)
  <2> HIDE DEF st
  <2>1. ASSUME NEW z \in {x, y} PROVE SupOK(z)
    <3>1. z \in SupState /\ z.done = st.done /\ z.queue = st.queue /\ z.frame = st.frame
          /\ z.made = st.made /\ z.room = st.room /\ z.loading = ld
      BY <1>6
    <3>2. QED
      BY <1>1, <1>5, <3>1 DEF SupOK, Done
  <2>2. QED
    BY <2>1
<1>8. QED
  BY <1>2, <1>6, <1>7, SupStepKeeps

-----------------------------------------------------------------------------
(* The theorems.                                                           *)

LEMMA NextKeeps ==
  ASSUME IInv, [Next]_vars
  PROVE  IInv'
<1>1. ASSUME NEW u \in Users, EnterRoom(u) \/ ClientMsg(u) \/ LeaveRoom(u) \/ ClientMsgCloses(u)
      PROVE  IInv'
  BY <1>1, EnterRoomKeeps, EventStepsKeep
<1>2. ASSUME NEW updates \in BOOLEAN, Loop(updates) PROVE IInv'
  BY <1>2, LoopKeeps
<1>3. ASSUME StartCloses \/ UpdateCloses PROVE IInv'
  <2>1. members # << >> /\ members \in Seq(entered) /\ ToSet(members) \subseteq Users
    BY <1>3, MemberIsUser DEF StartCloses, UpdateCloses, IInv
  <2>2. Head(members) \in Users
    BY <2>1, HeadAndTail
  <2>3. QED
    BY <1>3, <2>2, EventStepsKeep
<1>4. ASSUME Tick PROVE IInv'
  BY <1>4, TickKeeps
<1>5. ASSUME NEW c \in DOMAIN sent, NEW s \in Sups, Settle(c, s) \/ Deliver(c, s) \/ Lose(c, s)
      PROVE  IInv'
  <2>1. CASE Lose(c, s)
    <3>1. UNCHANGED <<logicVars, sup>> /\ wire' \subseteq wire /\ enters' \subseteq enters
      BY <2>1 DEF Lose
    <3>2. QED
      BY <3>1, LossesKeep
  <2>2. QED
    BY <1>5, <2>1, SettleKeeps, DeliverKeeps
<1>6. ASSUME NEW u \in Users, NEW s \in Sups,
             EnterArrives(u, s) \/ EnterLost(u, s) \/ Loaded(u, s) \/ LoadFails(u, s)
      PROVE  IInv'
  <2>1. CASE EnterLost(u, s)
    <3>1. UNCHANGED <<logicVars, sup>> /\ wire' \subseteq wire /\ enters' \subseteq enters
      BY <2>1 DEF EnterLost
    <3>2. QED
      BY <3>1, LossesKeep
  <2>2. QED
    BY <1>6, <2>1, EnterArrivesKeeps, LoadEndsKeeps
<1>7. ASSUME UNCHANGED vars PROVE IInv'
  <2>1. UNCHANGED <<logicVars, sup>> /\ wire' \subseteq wire /\ enters' \subseteq enters
    BY <1>7 DEF vars
  <2>2. QED
    BY <2>1, LossesKeep
<1>8. QED
  BY <1>1, <1>2, <1>3, <1>4, <1>5, <1>6, <1>7 DEF Next

LEMMA IInvTypes ==
  ASSUME IInv
  PROVE  TypeOK
<1> USE DEF IInv
<1>1. /\ entered \subseteq Users /\ ToSet(members) \subseteq entered
      /\ frame \in 0..MaxFrame /\ running \in BOOLEAN /\ overlapped \in BOOLEAN
      /\ ToSet(list) \subseteq DOMAIN events /\ Sent \subseteq DOMAIN events
      /\ unsafe \subseteq DOMAIN events
  BY InToSet DEF LogicOK
<1>2. frame \in Nat
  BY MemberIsUser
<1>3. ASSUME NEW i \in DOMAIN events
      PROVE  /\ events[i].frame \in 0..frame
             /\ events[i].type \in {"on_client_msg", "onSupUpdate", "leave_room",
                  "engine_close"}
             /\ events[i].user \in Users \cup {"all"}
  <2>1. events[i] \in Happening /\ events[i].frame <= frame
    BY DEF LogicOK
  <2>2. QED
    BY <1>2, <2>1 DEF Happening, Types
<1>4. waiting \cup wire \subseteq (DOMAIN sent) \X Sups /\ enters \subseteq entered \X Sups
  BY DEF WireOK
<1>5. ASSUME NEW s \in Sups
      PROVE  /\ sup[s].room \in 0..sup[s].made
             /\ sup[s].users \in [Users -> {"none", "init", "in"}]
             /\ sup[s].loading \in [Users -> 0..sup[s].made]
             /\ ToSet(sup[s].members) \subseteq entered
             /\ ToSet(sup[s].queue) \subseteq Sent
             /\ sup[s].frame \in 0..frame
  <2> DEFINE st == sup[s]
  <2>1. SupOK(st) /\ st \in SupState
    BY DEF SupsOK, SupOK
  <2>2. /\ st.room \in Nat /\ st.made \in Nat /\ st.users \in [Users -> {"none", "init", "in"}]
        /\ st.loading \in [Users -> Nat] /\ st.members \in Seq(entered) /\ st.frame \in Nat
    BY <2>1 DEF SupState
  <2> HIDE DEF st
  <2>3. st.room \in 0..st.made /\ st.loading \in [Users -> 0..st.made]
    <3>1. \A u \in Users : st.loading[u] \in 0..st.made
      BY <2>1, <2>2 DEF SupOK
    <3>2. QED
      BY <2>1, <2>2, <3>1 DEF SupOK
  <2>4. ToSet(st.members) \subseteq entered /\ ToSet(st.queue) \subseteq Sent
    BY <2>1, <2>2, InToSet DEF SupOK
  <2>5. st.frame \in 0..frame
    BY <1>2, <2>1, <2>2, SentEvent DEF SupOK
  <2>6. QED
    BY <2>2, <2>3, <2>4, <2>5 DEF st
<1>6. QED
  BY <1>1, <1>3, <1>4, <1>5 DEF TypeOK

LEMMA IInvSteps ==
  ASSUME IInv
  PROVE  ExecutedInStep
BY DEF IInv, StepInv, InStep, ExecutedInStep

\* The variables of the room and of its supervisors keep their types, and a supervisor's
\* frame count is never ahead of the logic node's: engine_supervisor.js doLoop takes it
\* from events that were sent.
THEOREM TypeCorrect == Spec => []TypeOK
<1>1. Init => IInv
  BY InitIInv
<1>2. IInv /\ [Next]_vars => IInv'
  BY NextKeeps
<1>3. IInv => TypeOK
  BY IInvTypes
<1>4. QED
  BY <1>1, <1>2, <1>3, PTL DEF Spec

\* sync_event_pool.js loses no event but those that happen while _onSyncTimeout awaits
\* its answers and those of a pool that was stopped: any other waits in the pool of an
\* open room or was sent, and once the room is closed it was sent.
THEOREM OnlyUnsafeLost == Spec => []OnlyUnsafeAreLost
<1>1. Init => IInv
  BY InitIInv
<1>2. IInv /\ [Next]_vars => IInv'
  BY NextKeeps
<1>3. IInv => OnlyUnsafeAreLost
  BY DEF IInv
<1>4. QED
  BY <1>1, <1>2, <1>3, PTL DEF Spec

\* engine_supervisor.js executes the events of the logic node in their order, none of
\* them twice, each at its frame, as long as no two lists of the pool are on their way
\* at once, whatever is lost or dropped or waits in between.
THEOREM InStepAlways == Spec => []ExecutedInStep
<1>1. Init => IInv
  BY InitIInv
<1>2. IInv /\ [Next]_vars => IInv'
  BY NextKeeps
<1>3. IInv => ExecutedInStep
  BY IInvSteps
<1>4. QED
  BY <1>1, <1>2, <1>3, PTL DEF Spec
=============================================================================
