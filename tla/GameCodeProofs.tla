--------------------------- MODULE GameCodeProofs ---------------------------
(***************************************************************************)
(* Theorems about GameCode, for all games, joins and rounds of the         *)
(* refresh.  JoinRetryProofs carries them over to the joins that load.     *)
(***************************************************************************)
EXTENDS GameCode, TLAPS

\* Loads ask for what is published, and what is in memory was published.  As long as no
\* two loads of a game have overlapped, its load under way is the only one and asked
\* for nothing older than the code in memory.
GrowInv ==
  /\ \A g \in Games : code[g] <= published[g]
  /\ \A l \in Loaders : load[l] # << >> =>
       /\ load[l].since <= published[load[l].game]
       /\ load[l].game \notin crossed =>
            /\ Loading(load[l].game) = {l}
            /\ code[load[l].game] <= load[l].since

CodeInv == MaxVersion \in Nat /\ TypeOK /\ GrowInv

-----------------------------------------------------------------------------
(* Parts of steps.                                                         *)

LEMMA InitCodeInv == GameCodeAssumption /\ Init => CodeInv
  BY DEF GameCodeAssumption, Init, CodeInv, TypeOK, GrowInv, Loaded, Loaders, Versions

\* A load that begins is well formed.
LEMMA BeginsLoad ==
  ASSUME TypeOK, NEW l \in Loaders, NEW g \in Games, NEW try \in {1, 2},
         Begins(l, g, try)
  PROVE  /\ load' = [load EXCEPT ![l] = NewLoad(g, try)] /\ DOMAIN load' = Loaders
         /\ load'[l] = NewLoad(g, try) /\ NewLoad(g, try) \in Load /\ NewLoad(g, try) # << >>
         /\ \A m \in Loaders \ {l} : load'[m] = load[m]
         /\ crossed \subseteq crossed' /\ crossed' \subseteq Games
         /\ g \notin crossed' => Loading(g) \subseteq {l}
<1>1. /\ DOMAIN load = Loaders /\ load' = [load EXCEPT ![l] = NewLoad(g, try)]
      /\ crossed \subseteq Games
  BY DEF TypeOK, Begins
<1>2. NewLoad(g, try) \in Load
  BY DEF NewLoad, Load, TypeOK
<1>3. NewLoad(g, try) # << >>
  BY DEF NewLoad
<1> QED
  BY <1>1, <1>2, <1>3 DEF Begins

\* A load that stops leaves the others alone.
LEMMA StopsLoad ==
  ASSUME TypeOK, NEW l \in Loaders, Stops(l)
  PROVE  /\ DOMAIN load' = Loaders /\ load'[l] = << >> /\ crossed' = crossed
         /\ \A m \in Loaders \ {l} : load'[m] = load[m]
  BY DEF TypeOK, Stops

\* The load of l is replaced by another one, or stops.
Moves(l) == Stops(l) \/ \E g \in Games, try \in {1, 2} : Begins(l, g, try)

\* Only the code of the load's own game changes, to a version that was published.
Keeps(l) ==
  /\ published' = published
  /\ \A g \in Games : code'[g] <= published[g]
  /\ \A g \in Games : code'[g] # code[g] => load[l] # << >> /\ load[l].game = g

LEMMA MovesLoad ==
  ASSUME TypeOK, NEW l \in Loaders, Moves(l)
  PROVE  /\ DOMAIN load' = Loaders /\ crossed \subseteq crossed' /\ crossed' \subseteq Games
         /\ \A m \in Loaders : load'[m] # << >> => load'[m] \in Load
         /\ \A m \in Loaders \ {l} : load'[m] = load[m]
         /\ load'[l] # << >> =>
              /\ load'[l].since = published[load'[l].game]
              /\ load'[l].game \notin crossed' => Loading(load'[l].game) \subseteq {l}
<1>1. CASE Stops(l)
  BY <1>1, StopsLoad DEF TypeOK
<1>2. CASE \E g \in Games, try \in {1, 2} : Begins(l, g, try)
  <2>1. PICK g \in Games, try \in {1, 2} : Begins(l, g, try)
    BY <1>2
  <2>2. /\ load'[l] = NewLoad(g, try) /\ NewLoad(g, try) \in Load /\ DOMAIN load' = Loaders
        /\ crossed \subseteq crossed' /\ crossed' \subseteq Games
        /\ \A m \in Loaders \ {l} : load'[m] = load[m]
        /\ g \notin crossed' => Loading(g) \subseteq {l}
    BY <2>1, BeginsLoad
  <2>3. load'[l].game = g /\ load'[l].since = published[g]
    BY <2>2 DEF NewLoad
  <2> QED
    BY <2>2, <2>3 DEF TypeOK
<1> QED
  BY <1>1, <1>2 DEF Moves

\* Such a step keeps GrowInv.
LEMMA MovesGrow ==
  ASSUME CodeInv, NEW l \in Loaders, Moves(l), Keeps(l)
  PROVE  GrowInv'
<1> USE DEF CodeInv
<1>1. \A g \in Games : code'[g] <= published'[g]
  BY DEF Keeps
<1>2. ASSUME NEW m \in Loaders, NEW g \in Games, load'[m] # << >>, load'[m].game = g
      PROVE  /\ load'[m].since <= published'[g]
             /\ g \notin crossed' => Loading(g)' = {m} /\ code'[g] <= load'[m].since
  <2>1. load'[m] \in Load
    BY <1>2, MovesLoad
  <2>2. CASE m = l
    <3>1. load'[l].since = published[g] /\ (g \notin crossed' => Loading(g) \subseteq {l})
      BY <1>2, <2>2, MovesLoad
    <3>2. g \notin crossed' => Loading(g)' = {m}
      BY <1>2, <2>2, <3>1, MovesLoad DEF Loading
    <3>3. code'[g] <= load'[m].since /\ published' = published /\ load'[m].since \in Nat
      BY <2>1, <2>2, <3>1 DEF Keeps, Load, Versions
    <3> QED
      BY <2>2, <3>1, <3>2, <3>3
  <2>3. CASE m # l
    <3>1. load'[m] = load[m] /\ load[m] # << >> /\ g = load[m].game
      BY <1>2, <2>3, MovesLoad
    <3>2. load[m].since <= published[g] /\ published' = published
      BY <3>1 DEF GrowInv, Keeps
    <3>3. ASSUME g \notin crossed' PROVE Loading(g)' = {m} /\ code'[g] <= load[m].since
      <4>1. g \notin crossed /\ Loading(g) = {m} /\ code[g] <= load[m].since
        BY <3>1, <3>3, MovesLoad DEF GrowInv
      <4>2. ~ (load[l] # << >> /\ load[l].game = g)
        BY <2>3, <4>1 DEF Loading
      <4>3. code'[g] = code[g]
        BY <2>1, <4>2 DEF Keeps
      <4>4. ~ (load'[l] # << >> /\ load'[l].game = g)
        BY <2>3, <3>3, <4>1, MovesLoad
      <4>5. Loading(g)' = {m}
        BY <1>2, <3>1, <4>1, <4>4, MovesLoad DEF Loading
      <4> QED
        BY <4>1, <4>3, <4>5
    <3> QED
      BY <3>1, <3>2, <3>3
  <2> QED
    BY <2>2, <2>3
<1>3. \A m \in Loaders : load'[m] # << >> => load'[m].game \in Games
  BY MovesLoad DEF Load
<1> QED
  BY <1>1, <1>2, <1>3 DEF GrowInv

\* What Store makes of the map.
LEMMA StoreMap ==
  ASSUME TypeOK, NEW g \in Games, NEW v \in Versions, Store(g, v)
  PROVE  /\ code' \in [Games -> {0} \cup Versions] /\ order' \in Seq(Games)
         /\ \A h \in Games : Loaded(h)' <=> \E i \in DOMAIN order' : order'[i] = h
         /\ \A i, j \in DOMAIN order' : order'[i] = order'[j] => i = j
         /\ old' \subseteq {h \in Games : Loaded(h)'}
         /\ code'[g] = v /\ \A h \in Games \ {g} : code'[h] = code[h]
<1>1. /\ code' \in [Games -> {0} \cup Versions] /\ code'[g] = v
      /\ \A h \in Games \ {g} : code'[h] = code[h]
  BY DEF TypeOK, Store
<1>2. v # 0
  BY DEF Versions
<1>3. \A h \in Games : Loaded(h)' <=> Loaded(h) \/ h = g
  BY <1>1, <1>2 DEF Loaded
<1>4. old' \subseteq {h \in Games : Loaded(h)'}
  BY <1>3 DEF Store, TypeOK
<1>5. /\ order' \in Seq(Games)
      /\ \A h \in Games : Loaded(h)' <=> \E i \in DOMAIN order' : order'[i] = h
      /\ \A i, j \in DOMAIN order' : order'[i] = order'[j] => i = j
  <2>1. CASE Loaded(g)
    <3>1. order' = order
      BY <2>1 DEF Store
    <3> QED
      BY <1>3, <2>1, <3>1 DEF TypeOK
  <2>2. CASE ~Loaded(g)
    <3>1. order' = Append(order, g) /\ order \in Seq(Games)
      BY <2>2 DEF Store, TypeOK
    <3>2. /\ order' \in Seq(Games) /\ DOMAIN order = 1..Len(order)
          /\ DOMAIN order' = 1..(Len(order) + 1) /\ order'[Len(order) + 1] = g
          /\ \A i \in DOMAIN order : order'[i] = order[i]
      BY <3>1
    <3>3. \A i \in DOMAIN order : order[i] # g
      BY <2>2 DEF TypeOK
    <3>4. Len(order) \in Nat
      BY <3>1
    <3>5. ASSUME NEW h \in Games
          PROVE  Loaded(h)' <=> \E i \in DOMAIN order' : order'[i] = h
      <4>1. Loaded(h) <=> \E i \in DOMAIN order : order[i] = h
        BY DEF TypeOK
      <4>2. (\E i \in DOMAIN order' : order'[i] = h)
              <=> h = g \/ \E i \in DOMAIN order : order[i] = h
        BY <3>2, <3>4
      <4> QED
        BY <1>3, <4>1, <4>2
    <3>6. \A i, j \in DOMAIN order' : order'[i] = order'[j] => i = j
      <4>1. \A i, j \in DOMAIN order : order[i] = order[j] => i = j
        BY DEF TypeOK
      <4> QED
        BY <3>2, <3>3, <3>4, <4>1
    <3> QED
      BY <3>2, <3>5, <3>6
  <2> QED
    BY <2>1, <2>2
<1> QED
  BY <1>1, <1>4, <1>5

-----------------------------------------------------------------------------
(* Steps.                                                                  *)

Grows == \A g \in Games : code'[g] < code[g] => g \in crossed

LEMMA GoesOnMoves ==
  ASSUME TypeOK, NEW r \in Loaders, NEW i, NEW aged, GoesOn(r, i, aged)
  PROVE  Moves(r)
<1>1. \A j \in DOMAIN order : order[j] \in Games
  BY DEF TypeOK
<1> QED
  BY <1>1 DEF GoesOn, Moves

\* A load that begins, fails or is tried again touches nothing in memory.
LEMMA MemoryKept ==
  ASSUME CodeInv, NEW l \in Loaders, Moves(l), UNCHANGED <<published, code, order, old>>
  PROVE  CodeInv' /\ Grows
<1> USE DEF CodeInv
<1>1. Keeps(l) /\ Grows
  BY DEF Keeps, GrowInv, Grows, TypeOK, Versions
<1>2. GrowInv'
  BY <1>1, MovesGrow
<1>3. TypeOK'
  BY MovesLoad DEF TypeOK, Loaded
<1> QED
  BY <1>1, <1>2, <1>3

\* A load that brings a version.
LEMMA VersionComes ==
  ASSUME CodeInv, NEW l \in Loaders, NEW v, load[l] # << >>, v \in Delivered(l),
         Store(load[l].game, v), Moves(l), published' = published
  PROVE  CodeInv' /\ Grows
<1> USE DEF CodeInv
<1> DEFINE g == load[l].game
<1>1. g \in Games /\ load[l].since \in Versions /\ published[g] \in Versions
  BY DEF TypeOK, Load
<1>2. v \in Versions /\ v <= published[g] /\ load[l].since <= v
  <2>1. v \in load[l].since..published[g]
    BY DEF Delivered
  <2> HIDE DEF g
  <2> QED
    BY <1>1, <2>1 DEF Versions
<1>3. code'[g] = v /\ \A h \in Games \ {g} : code'[h] = code[h]
  BY <1>1, <1>2, StoreMap
<1>4. \A h \in Games : code[h] <= published[h] /\ code[h] \in Nat
  BY DEF GrowInv, TypeOK, Versions
<1>5. Keeps(l)
  BY <1>1, <1>2, <1>3, <1>4 DEF Keeps
<1>6. Grows
  <2>1. g \notin crossed => code[g] <= load[l].since
    BY <1>1 DEF GrowInv
  <2> HIDE DEF g
  <2> QED
    BY <1>1, <1>2, <1>3, <1>4, <2>1 DEF Grows, Versions
<1>7. GrowInv'
  BY <1>5, MovesGrow
<1>8. TypeOK'
  <2>1. published' \in [Games -> Versions]
    BY DEF TypeOK
  <2>2. /\ code' \in [Games -> {0} \cup Versions] /\ order' \in Seq(Games)
        /\ \A h \in Games : Loaded(h)' <=> \E i \in DOMAIN order' : order'[i] = h
        /\ \A i, j \in DOMAIN order' : order'[i] = order'[j] => i = j
        /\ old' \subseteq {h \in Games : Loaded(h)'}
    BY <1>1, <1>2, StoreMap
  <2>3. /\ DOMAIN load' = Loaders /\ crossed' \subseteq Games
        /\ \A m \in Loaders : load'[m] # << >> => load'[m] \in Load
    BY MovesLoad
  <2> QED
    BY <2>1, <2>2, <2>3 DEF TypeOK
<1> QED
  BY <1>6, <1>7, <1>8

LEMMA StepCodeInv == CodeInv /\ [Next]_codeVars => CodeInv' /\ (Grows \/ UNCHANGED code)
<1> SUFFICES ASSUME CodeInv, [Next]_codeVars PROVE CodeInv' /\ (Grows \/ UNCHANGED code)
  OBVIOUS
<1>0. TypeOK /\ Joiners \subseteq Loaders /\ Refreshers \subseteq Loaders
  BY DEF CodeInv, Loaders
<1>1. ASSUME NEW l \in Joiners, NEW g \in Games, GetGame(l, g)
      PROVE  CodeInv' /\ Grows
  <2>1. Moves(l)
    BY <1>1 DEF GetGame, Moves
  <2> QED
    BY <1>0, <1>1, <2>1, MemoryKept DEF GetGame
<1>2. ASSUME NEW l \in Joiners, NEW v \in Versions, JoinGets(l, v)
      PROVE  CodeInv' /\ Grows
  <2>1. Moves(l)
    BY <1>2 DEF JoinGets, Moves
  <2> QED
    BY <1>0, <1>2, <2>1, VersionComes DEF JoinGets
<1>3. ASSUME NEW l \in Loaders, TriesAgain(l)
      PROVE  CodeInv' /\ Grows
  <2>1. load[l].game \in Games
    BY <1>0, <1>3 DEF TriesAgain, TypeOK, Load
  <2>2. Moves(l)
    BY <1>3, <2>1 DEF TriesAgain, Moves
  <2> QED
    BY <1>3, <2>2, MemoryKept DEF TriesAgain
<1>4. ASSUME NEW l \in Joiners, GivesUp(l)
      PROVE  CodeInv' /\ Grows
  <2>1. Moves(l)
    BY <1>4 DEF GivesUp, Moves
  <2> QED
    BY <1>0, <1>4, <2>1, MemoryKept DEF GivesUp
<1>5. ASSUME NEW r \in Refreshers, RefreshStarts(r)
      PROVE  CodeInv' /\ Grows
  <2>1. Moves(r)
    BY <1>0, <1>5, GoesOnMoves DEF RefreshStarts
  <2> QED
    BY <1>0, <1>5, <2>1, MemoryKept DEF RefreshStarts
<1>6. ASSUME NEW r \in Refreshers, NEW v \in Versions, RefreshGets(r, v)
      PROVE  CodeInv' /\ Grows
  <2>1. Moves(r)
    BY <1>0, <1>6, GoesOnMoves DEF RefreshGets
  <2> QED
    BY <1>0, <1>6, <2>1, VersionComes DEF RefreshGets
<1>7. ASSUME NEW r \in Refreshers, RefreshFails(r)
      PROVE  CodeInv' /\ Grows
  <2>1. Moves(r)
    BY <1>0, <1>7, GoesOnMoves DEF RefreshFails
  <2> QED
    BY <1>0, <1>7, <2>1, MemoryKept DEF RefreshFails
<1>8. ASSUME NEW g \in Games, Publish(g)
      PROVE  CodeInv' /\ UNCHANGED code
  <2>1. TypeOK' /\ UNCHANGED code
    <3>1. published' \in [Games -> Versions]
      BY <1>0, <1>8 DEF CodeInv, Publish, TypeOK, Versions
    <3> QED
      BY <1>0, <1>8, <3>1 DEF Publish, TypeOK, Loaded
  <2>2. \A h \in Games : published[h] \in Nat /\ published'[h] \in Nat
                        /\ published[h] <= published'[h] /\ code[h] \in Nat
    BY <1>0, <1>8 DEF Publish, TypeOK, Versions
  <2>3. \A l \in Loaders : load[l] # << >> => load[l].game \in Games /\ load[l].since \in Nat
    BY <1>0 DEF TypeOK, Load, Versions
  <2>4. GrowInv'
    BY <1>8, <2>2, <2>3 DEF CodeInv, GrowInv, Publish, Loading
  <2> QED
    BY <2>1, <2>4 DEF CodeInv
<1>9. ASSUME NEW g \in Games, Ages(g)
      PROVE  CodeInv' /\ UNCHANGED code
  BY <1>9 DEF CodeInv, Ages, TypeOK, GrowInv, Loaded, Loading
<1>10. CASE UNCHANGED codeVars
  BY <1>10 DEF codeVars, CodeInv, TypeOK, GrowInv, Loaded, Loading
<1>11. CASE JoinSteps
  BY <1>0, <1>1, <1>2, <1>3, <1>4, <1>11 DEF JoinSteps
<1>12. CASE OtherSteps
  BY <1>0, <1>3, <1>5, <1>6, <1>7, <1>8, <1>9, <1>12 DEF OtherSteps
<1> QED
  BY <1>10, <1>11, <1>12 DEF Next

-----------------------------------------------------------------------------
(* Theorems.                                                               *)

\* The map of the games' code keeps its type and lists each loaded game once (TypeOK),
\* for every number of games, joins and rounds of the refresh.
THEOREM TypeCorrect == GameCodeAssumption /\ Spec => []TypeOK
<1>1. GameCodeAssumption /\ Init => CodeInv
  BY InitCodeInv
<1>2. CodeInv /\ [Next]_codeVars => CodeInv'
  BY StepCodeInv
<1>3. CodeInv => TypeOK
  BY DEF CodeInv
<1> QED
  BY <1>1, <1>2, <1>3, PTL DEF Spec

\* The code of a game in memory never goes back to an older version as long as no two
\* loads of the game have overlapped (VersionsGrow).
THEOREM NeverOlder == GameCodeAssumption /\ Spec => VersionsGrow
<1>1. GameCodeAssumption /\ Init => CodeInv
  BY InitCodeInv
<1>2. CodeInv /\ [Next]_codeVars => CodeInv'
  BY StepCodeInv
<1>3. CodeInv /\ [Next]_codeVars => [\A g \in Games : code'[g] < code[g] => g \in crossed]_code
  BY StepCodeInv DEF Grows
<1> QED
  BY <1>1, <1>2, <1>3, PTL DEF Spec, VersionsGrow
=============================================================================
